---- MODULE Spec2Model ----
(***************************************************************************)
(* Model of the domain-runner query orchestrators.                         *)
(*                                                                         *)
(*  - CrawlerOrchestrator (crawler.rs): one batch run over the active      *)
(*    domains, in chunks, each chunk a stream of (domain, provider,        *)
(*    prompt) futures driven by buffer_unordered under a global semaphore. *)
(*  - AIProviderManager (ai_providers.rs): passes over the configured      *)
(*    providers with tier staggering, per-provider pacing and retries.     *)
(***************************************************************************)
EXTENDS Integers, Sequences, FiniteSets, TLC

(***************************************************************************)
(* Bounds of the model.                                                    *)
(***************************************************************************)
MaxConcurrency == 2     \* config.global_concurrency ranges over 1..MaxConcurrency
MaxDomains == 1         \* active domains in the store, small runs
MaxFaults == 3          \* provider/store errors the environment injects in one run
MaxElapsed == 3         \* start_time.elapsed() reads 0..MaxElapsed seconds
SlaTargetSecs == 1      \* config.sla_target_secs
SlaMaxSecs == 2         \* config.sla_max_secs
MaxPasses == 3          \* calls of process_domain_with_all_providers
TickMs == 100           \* granularity of the millisecond clock
MaxNow == 300           \* the clock advances tick by tick up to here, then timer to timer
MantissaBits == 6       \* significant bits of a floating-point number
FracBits == 8           \* floating-point numbers are multiples of 2^-FracBits
EmbeddingDim == 2       \* dimension of the embeddings
MaxModels == 3          \* models of an ensemble
MaxHistory == 3         \* embeddings of a history
MaxSubjects == 3        \* rows of the table domains
MaxTokens == 4          \* tokens of a raw payload
MaxPending == 2         \* domains get_pending_domains returns
MaxResponses == 3       \* rows of domain_responses the monitoring reads

(***************************************************************************)
(* Program constants.                                                      *)
(***************************************************************************)
chunk_size == 10
max_retries == 3
Prompts == <<"business_analysis", "content_strategy", "technical_assessment">>

\* the adapters main() hands to CrawlerOrchestrator::new (initialize_providers)
Providers == <<"openai", "anthropic">>
NumProviders == Len(Providers)

Min(a, b) == IF a < b THEN a ELSE b

RECURSIVE Pow2(_)
Pow2(n) == IF n = 0 THEN 1 ELSE 2 * Pow2(n - 1)

VARIABLES
    config,          \* Config: global_concurrency, sla_target_secs, sla_max_secs
    is_configured,   \* providers[p].is_configured()
    active_domains,  \* store: the ids of the domains with active = true, ordered
    faults,          \* errors injected so far (environment)
    run_pc,          \* position of run(): start, fetch, chunk, update, ok, err
    domains,         \* run's local: the fetched domains
    chunk_lo,        \* offset in domains of the chunk being processed
    stream_pos,      \* futures of the chunk's task iterator pulled so far
    in_flight,       \* futures buffer_unordered is polling: task index -> locals
    results,         \* outputs collected for the chunk: counts of Ok and Err
    permits,         \* global_semaphore: available permits
    total_calls,
    successful,
    failed,
    elapsed,         \* the last value read from start_time.elapsed(), in seconds
    batch,           \* the crawl_batches row of this run
    breach_seen,     \* history: a deadline check has seen elapsed > sla_max_secs
    subjects_run,    \* history: domains of the chunks that were run to the end
    tasks_run,       \* history: futures that returned, over all chunks
    exhausted,       \* history: futures whose provider call failed max_retries times
    insert_failed    \* history: futures whose insert_response failed

cvars == <<config, is_configured, active_domains, faults, run_pc, domains, chunk_lo,
           stream_pos, in_flight, results, permits, total_calls, successful, failed,
           elapsed, batch, breach_seen, subjects_run, tasks_run, exhausted,
           insert_failed>>

VARIABLES
    api_keys,            \* names of the providers whose api_key is not empty
    now,                 \* tokio's clock, in ms
    last_request_times,  \* HashMap<String, Instant>
    pass_pc,             \* off, idle (no pass running), running
    passes,              \* passes started so far
    mtasks,              \* the futures of the running pass: <<pass, provider>> -> locals
    pass_result,         \* what the last pass returned
    provider_errors,     \* provider errors injected so far (environment)
    admitted,            \* history: per provider, the times of its last two admissions
    total_responses,     \* process_pending_domains: responses saved so far
    save_failed          \* history: save_domain_response errors so far

mvars == <<api_keys, now, last_request_times, pass_pc, passes, mtasks, pass_result,
           provider_errors, admitted, total_responses, save_failed>>

\* the handler's count of saved responses and the history of its save errors
handlerLocals == <<total_responses, save_failed>>

VARIABLES
    llm_keys,                \* LLMOrchestrator's keys: provider -> none, empty, set
    enable_drift_detection,  \* settings.enable_drift_detection
    q_pc,                    \* query_domain's position: off, start, query, store, drift, status, ok, err
    requested,               \* history: the providers a request was sent to
    llm_responses,           \* Vec<LLMResponse>: provider and length of the answer
    q_idx,                   \* position of the running for loop in llm_responses
    stored_responses,        \* Vec<LLMResponseData>, by provider
    store_failed,            \* history: the providers whose store_response failed
    baselines_read,          \* history: what get_baseline returned, by position
    drift_results,           \* drifts: Vec<DriftData>
    subject_status           \* domains.status of the domain of the request

qvars == <<llm_keys, enable_drift_detection, q_pc, requested, llm_responses, q_idx,
           stored_responses, store_failed, baselines_read, drift_results, subject_status>>

VARIABLES
    drift_call,          \* the DriftEngine function applied last
    drift_args,          \* its arguments
    drift_ret            \* what it returned

dvars == <<drift_call, drift_args, drift_ret>>

VARIABLES
    rank_pc,             \* position of compute_rankings: none, ok, err, off
    domain_rows,         \* the tables domains, domain_responses and drift_scores, by domain
    rankings             \* Vec<BrandScore> returned by compute_rankings

rvars == <<rank_pc, domain_rows, rankings>>

VARIABLES
    norm_pc,             \* position of the normalizer: none, once, twice, off
    raw_response,        \* the raw payload
    first_pass,          \* normalize_response(raw_response)
    second_pass          \* normalize_response(first_pass.answer)

nvars == <<norm_pc, raw_response, first_pass, second_pass>>

VARIABLES
    retry_loop,          \* the retry loop followed: manager, crawler, off
    retry_pair,          \* two providers whose calls fail attempt after attempt
    retry_delays         \* the delays each of the two has slept, in order

bvars == <<retry_loop, retry_pair, retry_delays>>

VARIABLES
    insert_pc,           \* the writers of domain_responses: run or off
    pending_inserts,     \* tasks of the batch whose insert_response is still to come
    domain_responses,    \* the rows of the table domain_responses
    latest_write         \* history: per (domain_id, model), the last statement executed

svars == <<insert_pc, pending_inserts, domain_responses, latest_write>>

VARIABLES
    pend_pc,             \* process_pending_domains: fetch, mark, prompt, status, ok, err, off
    fetched_domains,     \* the ids get_pending_domains returned, in order
    domain_idx,          \* position in fetched_domains of the domain of this iteration
    prompt_idx,          \* position in the prompts of the next prompt
    domain_success,      \* the local of that name
    domain_status,       \* domains.status of each fetched domain
    prompt_outcomes,     \* history: per fetched domain, what each prompt processed returned
    saved_responses,     \* the local total_responses
    successful_domains,
    failed_domains

pvars == <<pend_pc, fetched_domains, domain_idx, prompt_idx, domain_success, domain_status,
           prompt_outcomes, saved_responses, successful_domains, failed_domains>>

VARIABLES
    monitor_pc,          \* process_drift_monitoring: fetch, loop, ok, err, off
    response_rows,       \* the rows of domain_responses, by ascending timestamp
    domain_embeddings,   \* the local HashMap: domain -> embeddings, in push order
    unchecked_domains,   \* entries of the map the loop has not visited yet
    compared_drift,      \* history: domain -> the latest_drift compared with 0.3
    drift_scores         \* the records save_drift_score has written

wvars == <<monitor_pc, response_rows, domain_embeddings, unchecked_domains,
           compared_drift, drift_scores>>

VARIABLES
    connect_pc,          \* Database::new: connect, sleep, ok, err, off
    connect_attempt,     \* the loop variable attempt
    attempts_made,       \* history: calls of connect that have returned
    pauses,              \* history: sleeps of retry_delay that are over
    connect_elapsed      \* seconds since Database::new was called

kvars == <<connect_pc, connect_attempt, attempts_made, pauses, connect_elapsed>>

vars == <<cvars, mvars, qvars, dvars, rvars, nvars, bvars, svars, pvars, wvars, kvars>>

(***************************************************************************)
(* CrawlerOrchestrator                                                     *)
(***************************************************************************)

\* self.providers.iter().filter(|p| p.is_configured()), in vector order
ConfiguredProviders(cf) ==
    SelectSeq([p \in 1..NumProviders |-> p], LAMBDA p : cf[p])

\* provider_count()
provider_count(cf) == Len(ConfiguredProviders(cf))

\* domains.chunks(chunk_size): the chunk that starts at offset lo
ChunkWholeList(ds, lo) == ds
Chunk(ds, lo) == SubSeq(ds, lo + 1, Min(lo + chunk_size, Len(ds)))

\* the chunk's task iterator: domain-major, then provider, then prompt
Tasks(chunk, cf) ==
    LET ps == ConfiguredProviders(cf)
        K == Len(ps)
        P == Len(Prompts)
    IN  [i \in 1..(Len(chunk) * K * P) |->
            [domain |-> chunk[((i - 1) \div (K * P)) + 1],
             provider |-> ps[(((i - 1) \div P) % K) + 1],
             prompt |-> Prompts[((i - 1) % P) + 1]]]

CurrentTasks == Tasks(Chunk(domains, chunk_lo), is_configured)

\* Semaphore::new(config.global_concurrency)
SemaphoreNew(c) == c

\* self.global_semaphore.acquire(): takes one permit
AcquiredNoTake(p) == p
Acquired(p) == p - 1

\* drop(_permit) when process_domain_provider returns
ReleasedLeak(p) == p
Released(p) == p + 1

\* buffer_unordered(n): another future is pulled while fewer than n are polled
BufferHasRoom(n, polled) == polled < n

\* retry_count >= max_retries after the increment
RetriesExhaustedOffByOne(rc) == rc > max_retries
RetriesExhausted(rc) == rc >= max_retries

\* Duration::from_millis(100 * 2_u64.pow(retry_count))
BackoffMs(rc) == 100 * Pow2(rc)

NewFuture == [st |-> "acquire", retry_count |-> 0, delay |-> 0, log |-> <<>>]

EmptyResults == [ok |-> 0, err |-> 0]

NoBatch == [status |-> "none", domains_processed |-> 0, total_api_calls |-> 0,
            success_count |-> 0, error_count |-> 0]

InitCrawler(domainCounts, concurrencies) ==
    /\ config \in [global_concurrency : concurrencies,
                   sla_target_secs : {SlaTargetSecs},
                   sla_max_secs : {SlaMaxSecs}]
    /\ is_configured \in [1..NumProviders -> BOOLEAN]
    /\ \E n \in domainCounts : active_domains = [i \in 1..n |-> i]
    /\ faults = 0
    /\ run_pc = "start"
    /\ domains = <<>>
    /\ chunk_lo = 0
    /\ stream_pos = 0
    /\ in_flight = <<>>
    /\ results = EmptyResults
    /\ permits = SemaphoreNew(config.global_concurrency)
    /\ total_calls = 0
    /\ successful = 0
    /\ failed = 0
    /\ elapsed = 0
    /\ batch = NoBatch
    /\ breach_seen = FALSE
    /\ subjects_run = 0
    /\ tasks_run = 0
    /\ exhausted = 0
    /\ insert_failed = 0

runLocals == <<domains, chunk_lo, total_calls, successful, failed>>
chunkState == <<stream_pos, in_flight, results, permits>>
inputs == <<config, is_configured, active_domains>>
history == <<breach_seen, subjects_run, tasks_run, exhausted, insert_failed>>

\* INSERT INTO crawl_batches (...) VALUES ($1, NOW(), 'running')
RecordBatchStart ==
    /\ run_pc = "start"
    /\ \/ /\ batch' = [NoBatch EXCEPT !.status = "running"]
          /\ run_pc' = "fetch"
          /\ UNCHANGED faults
       \/ /\ faults < MaxFaults
          /\ faults' = faults + 1
          /\ run_pc' = "err"
          /\ UNCHANGED batch
    /\ UNCHANGED <<inputs, runLocals, chunkState, elapsed, history>>
    /\ UNCHANGED <<mvars, qvars, dvars, rvars, nvars, bvars, svars, pvars, wvars, kvars>>

\* let domains = self.fetch_active_domains().await?; then the first chunk, if any
FetchActiveDomains ==
    /\ run_pc = "fetch"
    /\ \/ /\ domains' = active_domains
          /\ run_pc' = IF Len(active_domains) = 0 THEN "update" ELSE "chunk"
          /\ UNCHANGED faults
       \/ /\ faults < MaxFaults
          /\ faults' = faults + 1
          /\ run_pc' = "err"
          /\ UNCHANGED domains
    /\ UNCHANGED <<inputs, chunk_lo, total_calls, successful, failed, chunkState,
                   elapsed, batch, history>>
    /\ UNCHANGED <<mvars, qvars, dvars, rvars, nvars, bvars, svars, pvars, wvars, kvars>>

\* buffer_unordered pulls the next future of the chunk and polls it
Admit ==
    /\ run_pc = "chunk"
    /\ stream_pos < Len(CurrentTasks)
    /\ BufferHasRoom(config.global_concurrency, Cardinality(DOMAIN in_flight))
    /\ stream_pos' = stream_pos + 1
    /\ in_flight' = [i \in (DOMAIN in_flight) \cup {stream_pos + 1} |->
                        IF i \in DOMAIN in_flight THEN in_flight[i] ELSE NewFuture]
    /\ UNCHANGED <<inputs, faults, run_pc, runLocals, results, permits, elapsed,
                   batch, history>>
    /\ UNCHANGED <<mvars, qvars, dvars, rvars, nvars, bvars, svars, pvars, wvars, kvars>>

\* let _permit = self.global_semaphore.acquire().await?; then the first query
AcquirePermit(i) ==
    /\ i \in DOMAIN in_flight
    /\ in_flight[i].st = "acquire"
    /\ permits > 0
    /\ permits' = Acquired(permits)
    /\ in_flight' = [in_flight EXCEPT ![i].st = "query", ![i].log = @ \o <<"call">>]
    /\ UNCHANGED <<inputs, faults, run_pc, runLocals, stream_pos, results, elapsed,
                   batch, history>>
    /\ UNCHANGED <<mvars, qvars, dvars, rvars, nvars, bvars, svars, pvars, wvars, kvars>>

\* the future returns r: its permit is dropped and buffer_unordered yields r
Return(i, r) ==
    /\ in_flight' = [j \in (DOMAIN in_flight) \ {i} |-> in_flight[j]]
    /\ permits' = Released(permits)
    /\ results' = [results EXCEPT ![r] = @ + 1]
    /\ tasks_run' = tasks_run + 1

\* provider.query(...) returns Err(e)
QueryErr(i) ==
    /\ i \in DOMAIN in_flight
    /\ in_flight[i].st = "query"
    /\ faults < MaxFaults
    /\ faults' = faults + 1
    /\ LET rc == in_flight[i].retry_count + 1
       IN  IF RetriesExhausted(rc)
           THEN /\ Return(i, "err")
                /\ exhausted' = exhausted + 1
           ELSE /\ in_flight' = [in_flight EXCEPT ![i].st = "sleep",
                                                  ![i].retry_count = rc,
                                                  ![i].delay = BackoffMs(rc),
                                                  ![i].log = @ \o <<"fail">>]
                /\ UNCHANGED <<permits, results, tasks_run, exhausted>>
    /\ UNCHANGED <<inputs, run_pc, runLocals, stream_pos, elapsed, batch,
                   breach_seen, subjects_run, insert_failed>>
    /\ UNCHANGED <<mvars, qvars, dvars, rvars, nvars, bvars, svars, pvars, wvars, kvars>>

\* tokio::time::sleep(delay) is over: the loop calls the provider again
BackoffElapsed(i) ==
    /\ i \in DOMAIN in_flight
    /\ in_flight[i].st = "sleep"
    /\ in_flight' = [in_flight EXCEPT ![i].st = "query",
                                      ![i].log = @ \o <<"slept", "call">>]
    /\ UNCHANGED <<inputs, faults, run_pc, runLocals, stream_pos, results, permits,
                   elapsed, batch, history>>
    /\ UNCHANGED <<mvars, qvars, dvars, rvars, nvars, bvars, svars, pvars, wvars, kvars>>

\* provider.query(...) returns Ok(response): db::insert_response is awaited
QueryOk(i) ==
    /\ i \in DOMAIN in_flight
    /\ in_flight[i].st = "query"
    /\ in_flight' = [in_flight EXCEPT ![i].st = "insert", ![i].log = @ \o <<"ok">>]
    /\ UNCHANGED <<inputs, faults, run_pc, runLocals, stream_pos, results, permits,
                   elapsed, batch, history>>
    /\ UNCHANGED <<mvars, qvars, dvars, rvars, nvars, bvars, svars, pvars, wvars, kvars>>

\* db::insert_response(...).await? succeeds: return Ok(())
InsertOk(i) ==
    /\ i \in DOMAIN in_flight
    /\ in_flight[i].st = "insert"
    /\ Return(i, "ok")
    /\ UNCHANGED <<inputs, faults, run_pc, runLocals, stream_pos, elapsed, batch,
                   breach_seen, subjects_run, exhausted, insert_failed>>
    /\ UNCHANGED <<mvars, qvars, dvars, rvars, nvars, bvars, svars, pvars, wvars, kvars>>

\* db::insert_response(...).await? fails: the error is returned
InsertErrRetriesQuery(i) ==
    /\ i \in DOMAIN in_flight
    /\ in_flight[i].st = "insert"
    /\ faults < MaxFaults
    /\ faults' = faults + 1
    /\ in_flight' = [in_flight EXCEPT ![i].st = "query"]
    /\ insert_failed' = insert_failed + 1
    /\ UNCHANGED <<inputs, run_pc, runLocals, stream_pos, results, permits, elapsed, batch,
                   breach_seen, subjects_run, tasks_run, exhausted>>
    /\ UNCHANGED <<mvars, qvars, dvars, rvars, nvars, bvars, svars, pvars, wvars, kvars>>
InsertErr(i) ==
    /\ i \in DOMAIN in_flight
    /\ in_flight[i].st = "insert"
    /\ faults < MaxFaults
    /\ faults' = faults + 1
    /\ Return(i, "err")
    /\ insert_failed' = insert_failed + 1
    /\ UNCHANGED <<inputs, run_pc, runLocals, stream_pos, elapsed, batch,
                   breach_seen, subjects_run, exhausted>>
    /\ UNCHANGED <<mvars, qvars, dvars, rvars, nvars, bvars, svars, pvars, wvars, kvars>>

\* .collect::<Vec<_>>().await is ready: the stream is exhausted, nothing is polled
ChunkCollectedOnFirstError ==
    \/ results.err > 0 /\ in_flight = <<>>
    \/ stream_pos = Len(CurrentTasks) /\ in_flight = <<>>
ChunkCollectedTasksRunning == stream_pos = Len(CurrentTasks)
ChunkCollected == stream_pos = Len(CurrentTasks) /\ in_flight = <<>>

\* for result in results { total_calls += 1; match result {...} }
TallyDropsFailures(t, r) ==
    [total_calls |-> t.total_calls + r.ok + r.err,
     successful |-> t.successful + r.ok,
     failed |-> t.failed]
Tally(t, r) ==
    [total_calls |-> t.total_calls + r.ok + r.err,
     successful |-> t.successful + r.ok,
     failed |-> t.failed + r.err]

\* elapsed > Duration::from_secs(self.config.sla_max_secs)
HardDeadlineIgnored(e, cfg) == FALSE
HardDeadlineAtTarget(e, cfg) == e > cfg.sla_target_secs
HardDeadlineReached(e, cfg) == e > cfg.sla_max_secs

\* the rest of the loop body once the chunk's results are in, and the loop step;
\* e is what start_time.elapsed() reads: the clock is monotonic
TallyChunk ==
    /\ run_pc = "chunk"
    /\ ChunkCollected
    /\ \E e \in elapsed..MaxElapsed :
        LET t == Tally([total_calls |-> total_calls, successful |-> successful,
                        failed |-> failed], results)
            next_lo == chunk_lo + chunk_size
        IN  /\ elapsed' = e
            /\ total_calls' = t.total_calls
            /\ successful' = t.successful
            /\ failed' = t.failed
            /\ IF HardDeadlineReached(e, config) \/ next_lo >= Len(domains)
               THEN /\ run_pc' = "update"
                    /\ UNCHANGED <<chunk_lo, stream_pos>>
               ELSE /\ run_pc' = "chunk"
                    /\ chunk_lo' = next_lo
                    /\ stream_pos' = 0
            /\ results' = EmptyResults
            /\ breach_seen' = (breach_seen \/ e > config.sla_max_secs)
    /\ subjects_run' = subjects_run + Len(Chunk(domains, chunk_lo))
    /\ UNCHANGED <<inputs, faults, domains, in_flight, permits, batch,
                   tasks_run, exhausted, insert_failed>>
    /\ UNCHANGED <<mvars, qvars, dvars, rvars, nvars, bvars, svars, pvars, wvars, kvars>>

\* the record the UPDATE at the end of run() writes
CompletionRecord ==
    [status |-> "completed",
     domains_processed |-> Len(domains),
     total_api_calls |-> total_calls,
     success_count |-> successful,
     error_count |-> failed]

\* UPDATE crawl_batches SET completed_at = NOW(), status = 'completed', ...
UpdateBatchCompletion ==
    /\ run_pc = "update"
    /\ \/ /\ batch' = CompletionRecord
          /\ run_pc' = "ok"
          /\ UNCHANGED faults
       \/ /\ faults < MaxFaults
          /\ faults' = faults + 1
          /\ run_pc' = "err"
          /\ UNCHANGED batch
    /\ UNCHANGED <<inputs, runLocals, chunkState, elapsed, history>>
    /\ UNCHANGED <<mvars, qvars, dvars, rvars, nvars, bvars, svars, pvars, wvars, kvars>>

TaskStep(i) ==
    \/ AcquirePermit(i)
    \/ QueryErr(i)
    \/ BackoffElapsed(i)
    \/ QueryOk(i)
    \/ InsertOk(i)
    \/ InsertErr(i)

MaxTasks == chunk_size * NumProviders * Len(Prompts)

\* the futures of a run over at most MaxDomains domains
TaskIds == 1..(MaxDomains * NumProviders * Len(Prompts))

NextCrawler ==
    \/ RecordBatchStart
    \/ FetchActiveDomains
    \/ Admit
    \/ \E i \in 1..MaxTasks : TaskStep(i)
    \/ TallyChunk
    \/ UpdateBatchCompletion

\* the crawler is not running
CrawlerOff ==
    /\ config = [global_concurrency |-> 1, sla_target_secs |-> SlaTargetSecs,
                 sla_max_secs |-> SlaMaxSecs]
    /\ is_configured = [p \in 1..NumProviders |-> FALSE]
    /\ active_domains = <<>>
    /\ faults = 0
    /\ run_pc = "off"
    /\ domains = <<>>
    /\ chunk_lo = 0
    /\ stream_pos = 0
    /\ in_flight = <<>>
    /\ results = EmptyResults
    /\ permits = 0
    /\ total_calls = 0
    /\ successful = 0
    /\ failed = 0
    /\ elapsed = 0
    /\ batch = NoBatch
    /\ breach_seen = FALSE
    /\ subjects_run = 0
    /\ tasks_run = 0
    /\ exhausted = 0
    /\ insert_failed = 0

(***************************************************************************)
(* AIProviderManager                                                       *)
(***************************************************************************)

\* the providers vector built by AIProviderManager::new
ProviderTable ==
    <<[name |-> "openai", speed_tier |-> "Fast", rate_limit_per_minute |-> 500],
      [name |-> "anthropic", speed_tier |-> "Fast", rate_limit_per_minute |-> 300],
      [name |-> "deepseek", speed_tier |-> "Medium", rate_limit_per_minute |-> 200],
      [name |-> "mistral", speed_tier |-> "Medium", rate_limit_per_minute |-> 250],
      [name |-> "xai", speed_tier |-> "Slow", rate_limit_per_minute |-> 100],
      [name |-> "together", speed_tier |-> "Slow", rate_limit_per_minute |-> 120],
      [name |-> "perplexity", speed_tier |-> "Slow", rate_limit_per_minute |-> 150],
      [name |-> "google", speed_tier |-> "Slow", rate_limit_per_minute |-> 60]>>

ProviderNames == {ProviderTable[k].name : k \in DOMAIN ProviderTable}

\* the sets of providers that have an API key in the runs checked
KeySets == {{}, {"anthropic"}, {"mistral"}, {"google"}, {"openai", "anthropic"}}

\* let min_delay_ms = 60_000 / provider.rate_limit_per_minute as u64
MinDelayMs(provider) == 60000 \div provider.rate_limit_per_minute

\* the sleep before query_provider_with_throttling, by tier
StaggerMsSlowAsMedium(tier) ==
    CASE tier = "Fast" -> 0
      [] tier = "Medium" -> 200
      [] tier = "Slow" -> 200
StaggerMs(tier) ==
    CASE tier = "Fast" -> 0
      [] tier = "Medium" -> 200
      [] tier = "Slow" -> 500

\* base_delay of the retry backoff, by tier
BaseDelayMs(tier) ==
    CASE tier = "Fast" -> 1000
      [] tier = "Medium" -> 1500
      [] tier = "Slow" -> 2000

\* Duration::from_millis(base_delay * attempt as u64)
ManagerBackoffMs(tier, attempt) == BaseDelayMs(tier) * attempt

\* for attempt in 1..=max_retries: the loop goes on after a failed attempt
MoreAttemptsOffByOne(attempt) == attempt <= max_retries
MoreAttempts(attempt) == attempt < max_retries

\* process_domain_with_all_providers takes &mut self and is awaited by its caller
\* before the next call: no pass starts while one runs
NoPassRunningUnchecked == pass_pc \in {"idle", "running"}
NoPassRunning == pass_pc = "idle"

NoPassResult == [status |-> "none", successful_responses |-> {}, failed_count |-> 0]

InitManager ==
    /\ api_keys \in KeySets
    /\ now = 0
    /\ last_request_times = <<>>
    /\ pass_pc = "idle"
    /\ passes = 0
    /\ mtasks = <<>>
    /\ pass_result = NoPassResult
    /\ provider_errors = 0
    /\ admitted = [n \in ProviderNames |-> <<>>]
    /\ total_responses = 0
    /\ save_failed = 0

\* the runner is not running
ManagerOff ==
    /\ api_keys = {}
    /\ now = 0
    /\ last_request_times = <<>>
    /\ pass_pc = "off"
    /\ passes = 0
    /\ mtasks = <<>>
    /\ pass_result = NoPassResult
    /\ provider_errors = 0
    /\ admitted = [n \in ProviderNames |-> <<>>]
    /\ total_responses = 0
    /\ save_failed = 0

\* the future of provider k when it is created: asleep for its tier's stagger
Staggered(k) ==
    [provider |-> k, st |-> "stagger",
     wake |-> now + StaggerMs(ProviderTable[k].speed_tier),
     now_read |-> 0, last_read |-> 0, attempt |-> 0, called_at |-> 0, log |-> <<>>]

\* apply_rate_limiting sleeps: the provider has an entry younger than min_delay_ms
MustPace(k, table) ==
    LET provider == ProviderTable[k]
    IN  /\ provider.name \in DOMAIN table
        /\ now - table[provider.name] < MinDelayMs(provider)

\* query_provider_with_throttling from its start to its first await: the sleep of
\* apply_rate_limiting, or else the first call of the provider
Throttled(k, table) ==
    LET provider == ProviderTable[k]
    IN  IF MustPace(k, table)
        THEN [provider |-> k, st |-> "rate_sleep",
              wake |-> now + (MinDelayMs(provider) - (now - table[provider.name])),
              now_read |-> now, last_read |-> table[provider.name],
              attempt |-> 0, called_at |-> 0, log |-> <<>>]
        ELSE [provider |-> k, st |-> "query", wake |-> 0,
              now_read |-> now, last_read |-> 0,
              attempt |-> 1, called_at |-> now, log |-> <<"call">>]

\* self.last_request_times.insert(name, instant) for each name of the set
Inserted(table, names, instant) ==
    [n \in (DOMAIN table) \cup names |-> IF n \in names THEN instant[n] ELSE table[n]]

\* the first request of each provider of the set is issued now
Admitted(names) ==
    [n \in ProviderNames |->
        IF n \in names
        THEN IF Len(admitted[n]) = 2 THEN <<admitted[n][2], now>>
                                     ELSE Append(admitted[n], now)
        ELSE admitted[n]]

NameOf(k) == ProviderTable[k].name

\* process_domain_with_all_providers up to join_all's first poll of every future:
\* the fast providers enter query_provider_with_throttling, the others sleep
PassStart ==
    /\ NoPassRunning
    /\ passes < MaxPasses
    /\ passes' = passes + 1
    /\ pass_pc' = "running"
    /\ LET ks == {k \in DOMAIN ProviderTable : NameOf(k) \in api_keys}
           fast == {k \in ks : ProviderTable[k].speed_tier = "Fast"}
           called == {NameOf(k) : k \in {j \in fast : ~MustPace(j, last_request_times)}}
           new == {<<passes + 1, k>> : k \in ks}
       IN  /\ mtasks' = [t \in (DOMAIN mtasks) \cup new |->
                            IF t \in new
                            THEN IF t[2] \in fast
                                 THEN Throttled(t[2], last_request_times)
                                 ELSE Staggered(t[2])
                            ELSE mtasks[t]]
           /\ last_request_times' =
                Inserted(last_request_times, called, [n \in called |-> now])
           /\ admitted' = Admitted(called)
    /\ UNCHANGED <<api_keys, now, pass_result, provider_errors>>
    /\ UNCHANGED handlerLocals
    /\ UNCHANGED <<cvars, qvars, dvars, rvars, nvars, bvars, svars, pvars, wvars, kvars>>

\* the stagger sleep of a medium or slow provider is over: it enters
\* query_provider_with_throttling
StaggerElapsed(t) ==
    /\ t \in DOMAIN mtasks
    /\ mtasks[t].st = "stagger"
    /\ now >= mtasks[t].wake
    /\ LET k == mtasks[t].provider
           called == IF MustPace(k, last_request_times) THEN {} ELSE {NameOf(k)}
       IN  /\ mtasks' = [mtasks EXCEPT ![t] = Throttled(k, last_request_times)]
           /\ last_request_times' =
                Inserted(last_request_times, called, [n \in called |-> now])
           /\ admitted' = Admitted(called)
    /\ UNCHANGED <<api_keys, now, pass_pc, passes, pass_result, provider_errors>>
    /\ UNCHANGED handlerLocals
    /\ UNCHANGED <<cvars, qvars, dvars, rvars, nvars, bvars, svars, pvars, wvars, kvars>>

\* the sleep of apply_rate_limiting is over: the table gets the `now` read on
\* entry, and the first call of the provider is made
RateLimitWake(t) ==
    /\ t \in DOMAIN mtasks
    /\ mtasks[t].st = "rate_sleep"
    /\ now >= mtasks[t].wake
    /\ LET name == NameOf(mtasks[t].provider)
       IN  /\ last_request_times' =
                Inserted(last_request_times, {name}, [n \in {name} |-> mtasks[t].now_read])
           /\ admitted' = Admitted({name})
    /\ mtasks' = [mtasks EXCEPT ![t].st = "query",
                                ![t].attempt = 1,
                                ![t].called_at = now,
                                ![t].log = @ \o <<"call">>]
    /\ UNCHANGED <<api_keys, now, pass_pc, passes, pass_result, provider_errors>>
    /\ UNCHANGED handlerLocals
    /\ UNCHANGED <<cvars, qvars, dvars, rvars, nvars, bvars, svars, pvars, wvars, kvars>>

\* query_provider returns Ok
ManagerQueryOk(t) ==
    /\ t \in DOMAIN mtasks
    /\ mtasks[t].st = "query"
    /\ mtasks' = [mtasks EXCEPT ![t].st = "done_ok", ![t].log = @ \o <<"ok">>]
    /\ UNCHANGED <<api_keys, now, last_request_times, pass_pc, passes, pass_result,
                   provider_errors, admitted>>
    /\ UNCHANGED handlerLocals
    /\ UNCHANGED <<cvars, qvars, dvars, rvars, nvars, bvars, svars, pvars, wvars, kvars>>

\* query_provider returns Err: back off and retry, or give up after the last attempt
ManagerQueryErr(t) ==
    /\ t \in DOMAIN mtasks
    /\ mtasks[t].st = "query"
    /\ provider_errors < MaxFaults
    /\ provider_errors' = provider_errors + 1
    /\ LET tier == ProviderTable[mtasks[t].provider].speed_tier
           attempt == mtasks[t].attempt
       IN  IF MoreAttempts(attempt)
           THEN mtasks' = [mtasks EXCEPT ![t].st = "backoff",
                                         ![t].wake = now + ManagerBackoffMs(tier, attempt),
                                         ![t].log = @ \o <<"fail">>]
           ELSE mtasks' = [mtasks EXCEPT ![t].st = "done_err",
                                         ![t].log = @ \o <<"fail">>]
    /\ UNCHANGED <<api_keys, now, last_request_times, pass_pc, passes, pass_result,
                   admitted>>
    /\ UNCHANGED handlerLocals
    /\ UNCHANGED <<cvars, qvars, dvars, rvars, nvars, bvars, svars, pvars, wvars, kvars>>

\* sleep(delay) of the retry loop is over: the next attempt calls the provider
ManagerBackoffElapsed(t) ==
    /\ t \in DOMAIN mtasks
    /\ mtasks[t].st = "backoff"
    /\ now >= mtasks[t].wake
    /\ mtasks' = [mtasks EXCEPT ![t].st = "query",
                                ![t].attempt = @ + 1,
                                ![t].called_at = now,
                                ![t].log = @ \o <<"slept", "call">>]
    /\ UNCHANGED <<api_keys, now, last_request_times, pass_pc, passes, pass_result,
                   provider_errors, admitted>>
    /\ UNCHANGED handlerLocals
    /\ UNCHANGED <<cvars, qvars, dvars, rvars, nvars, bvars, svars, pvars, wvars, kvars>>

\* for (provider_name, response, memory_score) in responses: save_domain_response,
\* Ok counts the response, Err is logged; unsaved are the responses whose save fails
SaveResponsesAbortsOnError(responses, unsaved) ==
    /\ total_responses' = IF unsaved = {} THEN total_responses + Cardinality(responses)
                          ELSE total_responses
    /\ save_failed' = save_failed + Min(1, Cardinality(unsaved))
SaveResponses(responses, unsaved) ==
    /\ total_responses' = total_responses + Cardinality(responses \ unsaved)
    /\ save_failed' = save_failed + Cardinality(unsaved)

\* the loop over join_all's results and what the pass returns: Err when
\* successful_responses is empty, Ok(successful_responses) otherwise
PassResultErrOnAnyFailure(tasks) ==
    LET ok == {NameOf(tasks[t].provider) :
                    t \in {u \in DOMAIN tasks : tasks[u].st = "done_ok"}}
        failed_count == Cardinality({u \in DOMAIN tasks : tasks[u].st = "done_err"})
    IN  [status |-> IF ok = {} \/ failed_count > 0 THEN "err" ELSE "ok",
         successful_responses |-> IF failed_count > 0 THEN {} ELSE ok,
         failed_count |-> failed_count]
PassResult(tasks) ==
    LET ok == {NameOf(tasks[t].provider) :
                    t \in {u \in DOMAIN tasks : tasks[u].st = "done_ok"}}
        failed_count == Cardinality({u \in DOMAIN tasks : tasks[u].st = "done_err"})
    IN  [status |-> IF ok = {} THEN "err" ELSE "ok",
         successful_responses |-> ok,
         failed_count |-> failed_count]

\* futures::future::join_all(all_futures).await is ready, the rest of the pass, and
\* the handler's arm for what the pass returned
PassEnd ==
    /\ pass_pc = "running"
    /\ \A t \in DOMAIN mtasks : mtasks[t].st \in {"done_ok", "done_err"}
    /\ LET ok == PassResult(mtasks).successful_responses
       IN  /\ pass_result' = PassResult(mtasks)
           /\ \E unsaved \in SUBSET ok : SaveResponses(ok, unsaved)
    /\ mtasks' = <<>>
    /\ pass_pc' = "idle"
    /\ UNCHANGED <<api_keys, now, last_request_times, passes, provider_errors, admitted>>
    /\ UNCHANGED <<cvars, qvars, dvars, rvars, nvars, bvars, svars, pvars, wvars, kvars>>

\* the timers that have not fired yet
PendingWakes ==
    {mtasks[t].wake : t \in {u \in DOMAIN mtasks :
        mtasks[u].st \in {"stagger", "rate_sleep", "backoff"} /\ mtasks[u].wake > now}}

\* time passes: by one tick while now < MaxNow, or up to a pending timer
AdvanceClock ==
    /\ pass_pc \in {"idle", "running"}
    /\ \E next_now \in {n \in {now + TickMs} : now < MaxNow} \cup PendingWakes :
        now' = next_now
    /\ UNCHANGED <<api_keys, last_request_times, pass_pc, passes, mtasks, pass_result,
                   provider_errors, admitted>>
    /\ UNCHANGED handlerLocals
    /\ UNCHANGED <<cvars, qvars, dvars, rvars, nvars, bvars, svars, pvars, wvars, kvars>>

ManagerTaskIds == (1..MaxPasses) \X (DOMAIN ProviderTable)

ManagerTaskStep(t) ==
    \/ StaggerElapsed(t)
    \/ RateLimitWake(t)
    \/ ManagerQueryOk(t)
    \/ ManagerQueryErr(t)
    \/ ManagerBackoffElapsed(t)

NextManager ==
    \/ PassStart
    \/ \E t \in ManagerTaskIds : ManagerTaskStep(t)
    \/ PassEnd
    \/ AdvanceClock

(***************************************************************************)
(* LLMOrchestrator and the query_domain handler                            *)
(***************************************************************************)

\* the providers of query_all, in the order their tasks are pushed
QProviders == <<"openai", "anthropic", "together">>
QProviderSet == {QProviders[k] : k \in DOMAIN QProviders}

\* Option<String>: None, Some("") and Some(key)
KeyStates == {"none", "empty", "set"}

\* lengths of the answers and of the baselines the environment returns, on both
\* sides of the 10-character limit
AnswerLens == {9, 10}

\* similarities of an answer to its baseline, in hundredths
Similarities == {0, 30, 31, 70, 71, 100}

\* self.openai_key.is_some()
IsSome(key) == key # "none"

\* the tasks query_all spawns, in task order
Spawned(keys) == SelectSeq(QProviders, LAMBDA n : IsSome(keys[n]))

\* the drift thresholds of the detector: stable below 0.3, decayed from 0.7
classify_by_drift(drift) ==
    IF drift < 30 THEN "stable" ELSE IF drift >= 70 THEN "decayed" ELSE "drifting"

\* SentinelDetector::compute_drift(answer, baseline, ..), with the similarity of
\* two long enough texts an input
compute_drift(model, answer_len, baseline_len, similarity) ==
    IF answer_len < 10
    THEN [model |-> model, status |-> "decayed", similarity |-> 0, drift_score |-> 100]
    ELSE IF baseline_len < 10
    THEN [model |-> model, status |-> "stable", similarity |-> 100, drift_score |-> 0]
    ELSE [model |-> model, status |-> classify_by_drift(100 - similarity),
          similarity |-> similarity, drift_score |-> 100 - similarity]

\* what get_baseline can return: Err, Ok(None), Ok(Some(baseline of a length))
BaselineReads ==
    {[is |-> "err", len |-> 0], [is |-> "none", len |-> 0]}
        \cup {[is |-> "some", len |-> n] : n \in AnswerLens}

\* how a spawned task can end: Err, or Ok(response with an answer of a length)
TaskOutcomes == {[is |-> "err", len |-> 0]} \cup {[is |-> "ok", len |-> n] : n \in AnswerLens}

InitQuery ==
    /\ llm_keys \in [QProviderSet -> KeyStates]
    /\ enable_drift_detection \in BOOLEAN
    /\ q_pc = "start"
    /\ requested = {}
    /\ llm_responses = <<>>
    /\ q_idx = 0
    /\ stored_responses = <<>>
    /\ store_failed = {}
    /\ baselines_read = <<>>
    /\ drift_results = <<>>
    /\ subject_status = "pending"

\* the query service is not running
QueryOff ==
    /\ llm_keys = [n \in QProviderSet |-> "none"]
    /\ enable_drift_detection = FALSE
    /\ q_pc = "off"
    /\ requested = {}
    /\ llm_responses = <<>>
    /\ q_idx = 0
    /\ stored_responses = <<>>
    /\ store_failed = {}
    /\ baselines_read = <<>>
    /\ drift_results = <<>>
    /\ subject_status = "none"

\* state.db.get_or_create_domain(&req.domain): Ok, or Err and the handler returns 500
GetOrCreateDomain ==
    /\ q_pc = "start"
    /\ \E ok \in BOOLEAN : q_pc' = IF ok THEN "query" ELSE "err"
    /\ UNCHANGED subject_status
    /\ UNCHANGED <<llm_keys, enable_drift_detection, requested, llm_responses, q_idx,
                   stored_responses, store_failed, baselines_read, drift_results>>
    /\ UNCHANGED <<cvars, mvars, dvars, rvars, nvars, bvars, svars, pvars, wvars, kvars>>

\* where the handler goes after the store loop over n responses
AfterStoreLoop == IF enable_drift_detection THEN "drift" ELSE "status"

\* state.llm.query_all(&prompt): one spawned task per key that is Some, each sends
\* its request and ends with an answer or an error; the answers in task order
QueryAll ==
    /\ q_pc = "query"
    /\ LET tasks == Spawned(llm_keys)
       IN  /\ requested' = {tasks[k] : k \in DOMAIN tasks}
           /\ \E outcome \in [DOMAIN tasks -> TaskOutcomes] :
                LET answered == SelectSeq([k \in DOMAIN tasks |-> k],
                                          LAMBDA k : outcome[k].is = "ok")
                IN  /\ llm_responses' = [j \in DOMAIN answered |->
                            [provider |-> tasks[answered[j]],
                             answer_len |-> outcome[answered[j]].len]]
                    /\ q_pc' = IF answered = <<>> THEN AfterStoreLoop ELSE "store"
    /\ q_idx' = 1
    /\ UNCHANGED subject_status
    /\ UNCHANGED <<llm_keys, enable_drift_detection, stored_responses, store_failed,
                   baselines_read, drift_results>>
    /\ UNCHANGED <<cvars, mvars, dvars, rvars, nvars, bvars, svars, pvars, wvars, kvars>>

\* one turn of the store loop: normalize, store_response (an error is logged),
\* push to stored_responses
StoreResponse ==
    /\ q_pc = "store"
    /\ q_idx <= Len(llm_responses)
    /\ \E ok \in BOOLEAN :
        store_failed' = IF ok THEN store_failed
                        ELSE store_failed \cup {llm_responses[q_idx].provider}
    /\ stored_responses' = Append(stored_responses, llm_responses[q_idx].provider)
    /\ IF q_idx = Len(llm_responses)
       THEN q_pc' = AfterStoreLoop /\ q_idx' = 1
       ELSE q_pc' = q_pc /\ q_idx' = q_idx + 1
    /\ UNCHANGED subject_status
    /\ UNCHANGED <<llm_keys, enable_drift_detection, requested, llm_responses,
                   baselines_read, drift_results>>
    /\ UNCHANGED <<cvars, mvars, dvars, rvars, nvars, bvars, svars, pvars, wvars, kvars>>

\* the drift record of one response: none unless get_baseline gave Ok(Some(baseline))
DriftOf(resp, baseline, similarity) ==
    IF baseline.is = "some"
    THEN <<compute_drift(resp.provider, resp.answer_len, baseline.len, similarity)>>
    ELSE <<>>

\* one turn of the drift loop: get_baseline, and for Ok(Some(baseline)) compute_drift,
\* store_drift (an error is logged) and push to drifts
DriftStep ==
    /\ q_pc = "drift"
    /\ q_idx <= Len(llm_responses)
    /\ \E baseline \in BaselineReads, similarity \in Similarities :
        /\ baselines_read' = Append(baselines_read, baseline)
        /\ drift_results' = drift_results \o DriftOf(llm_responses[q_idx], baseline, similarity)
    /\ IF q_idx = Len(llm_responses)
       THEN q_pc' = "status" /\ q_idx' = 1
       ELSE q_pc' = q_pc /\ q_idx' = q_idx + 1
    /\ UNCHANGED subject_status
    /\ UNCHANGED <<llm_keys, enable_drift_detection, requested, llm_responses,
                   stored_responses, store_failed>>
    /\ UNCHANGED <<cvars, mvars, dvars, rvars, nvars, bvars, svars, pvars, wvars, kvars>>

\* the drift loop over no response
DriftNone ==
    /\ q_pc = "drift"
    /\ llm_responses = <<>>
    /\ q_pc' = "status"
    /\ UNCHANGED subject_status
    /\ UNCHANGED <<llm_keys, enable_drift_detection, requested, llm_responses, q_idx,
                   stored_responses, store_failed, baselines_read, drift_results>>
    /\ UNCHANGED <<cvars, mvars, dvars, rvars, nvars, bvars, svars, pvars, wvars, kvars>>

\* update_domain_status (an error is logged) and Ok(Json(QueryResponse))
UpdateDomainStatus ==
    /\ q_pc = "status"
    /\ q_pc' = "ok"
    /\ \/ subject_status' = "completed"
       \/ UNCHANGED subject_status
    /\ UNCHANGED <<llm_keys, enable_drift_detection, requested, llm_responses, q_idx,
                   stored_responses, store_failed, baselines_read, drift_results>>
    /\ UNCHANGED <<cvars, mvars, dvars, rvars, nvars, bvars, svars, pvars, wvars, kvars>>

NextQuery ==
    \/ GetOrCreateDomain
    \/ QueryAll
    \/ StoreResponse
    \/ DriftStep
    \/ DriftNone
    \/ UpdateDomainStatus

(***************************************************************************)
(* DriftEngine                                                             *)
(*                                                                         *)
(* f32 values are binary floating-point numbers of MantissaBits            *)
(* significant bits, held as integers in units of 2^-FracBits and rounded  *)
(* to nearest, ties to even, after every operation.  The similarities and  *)
(* drifts of the threshold and weight functions are decimal numbers, held  *)
(* in hundredths.                                                          *)
(***************************************************************************)

Abs(x) == IF x < 0 THEN 0 - x ELSE x
Sign(x) == IF x < 0 THEN 0 - 1 ELSE 1

RECURSIVE Pow(_, _)
Pow(b, n) == IF n = 0 THEN 1 ELSE b * Pow(b, n - 1)

\* number of binary digits of q
RECURSIVE BitLen(_)
BitLen(q) == IF q = 0 THEN 0 ELSE 1 + BitLen(q \div 2)

\* floor of the square root of x, between lo and hi
RECURSIVE ISqrtIn(_, _, _)
ISqrtIn(x, lo, hi) ==
    IF hi - lo <= 1
    THEN lo
    ELSE LET mid == (lo + hi) \div 2
         IN  IF mid * mid <= x THEN ISqrtIn(x, mid, hi) ELSE ISqrtIn(x, lo, mid)
ISqrt(x) == ISqrtIn(x, 0, 46341)

\* 1.0 in units of 2^-FracBits
One == Pow(2, FracBits)

\* the spacing of the floating-point numbers at magnitude q
Ulp(q) == IF q < Pow(2, MantissaBits) THEN 1 ELSE Pow(2, BitLen(q) - MantissaBits)

\* n / m rounded to the nearest integer, ties to even
RoundNearestEven(n, m) ==
    LET q == n \div m
        r == n % m
    IN  IF 2 * r > m \/ (2 * r = m /\ q % 2 = 1) THEN q + 1 ELSE q

\* the floating-point number nearest to n / d, for n >= 0 and d > 0
Round(n, d) ==
    LET u == Ulp(n \div d)
    IN  RoundNearestEven(n, d * u) * u

FMul(a, b) == Sign(a) * Sign(b) * Round(Abs(a) * Abs(b), One)
FAdd(a, b) == Sign(a + b) * Round(Abs(a + b), 1)
FDiv(a, b) == Sign(a) * Sign(b) * Round(Abs(a) * One, Abs(b))
FSqrt(a) ==
    LET x == a * One
        q == ISqrt(x)
        u == Ulp(q)
        r == (q \div u) * u
    IN  IF 4 * x > (2 * r + u) * (2 * r + u) THEN r + u ELSE r

\* a_vec.dot(&b_vec): the sum of the products, left to right
RECURSIVE DotUpTo(_, _, _)
DotUpTo(a, b, k) == IF k = 0 THEN 0 ELSE FAdd(DotUpTo(a, b, k - 1), FMul(a[k], b[k]))
Dot(a, b) == DotUpTo(a, b, Len(a))

\* a_vec.norm()
Norm(a) == FSqrt(Dot(a, a))

\* DriftEngine::cosine_similarity(a, b), for embeddings of the same dimension
cosine_similarity(a, b) ==
    LET dot_product == Dot(a, b)
        norm_a == Norm(a)
        norm_b == Norm(b)
    IN  IF norm_a = 0 \/ norm_b = 0
        THEN 0
        ELSE LET similarity == FDiv(dot_product, FMul(norm_a, norm_b))
             IN  FDiv(FAdd(similarity, One), 2 * One)

\* DriftEngine::classify_drift(drift_score), the score in units of 1 / unit
classify_driftBoundaryDecayed(drift_score, unit) ==
    IF 10 * drift_score >= 8 * unit THEN "Stable"
    ELSE IF 10 * drift_score > 5 * unit THEN "Drifting"
    ELSE "Decayed"
classify_drift(drift_score, unit) ==
    IF 10 * drift_score >= 8 * unit THEN "Stable"
    ELSE IF 10 * drift_score >= 5 * unit THEN "Drifting"
    ELSE "Decayed"

\* DriftEngine::create_drift_score(.., current_embedding, previous_embedding)
create_drift_score(current_embedding, previous_embedding) ==
    LET similarity == cosine_similarity(current_embedding, previous_embedding)
        drift == FAdd(One, 0 - similarity)
    IN  [similarity_prev |-> similarity,
         drift_score |-> drift,
         status |-> classify_drift(similarity, One)]

\* DriftEngine::calculate_temporal_drift(embeddings): one drift for each pair of
\* consecutive embeddings
calculate_temporal_driftSkipsLast(embeddings) ==
    IF Len(embeddings) < 2
    THEN <<>>
    ELSE [i \in 1..(Len(embeddings) - 2) |->
            FAdd(One, 0 - cosine_similarity(embeddings[i], embeddings[i + 1]))]
calculate_temporal_drift(embeddings) ==
    IF Len(embeddings) < 2
    THEN <<>>
    ELSE [i \in 1..(Len(embeddings) - 1) |->
            FAdd(One, 0 - cosine_similarity(embeddings[i], embeddings[i + 1]))]

\* DriftEngine::new(): the weights, in hundredths
self_weight == 40
peer_weight == 35
canonical_weight == 25

\* (0.0..=1.0).contains(&x), x in hundredths
InUnitRange(x) == 0 <= x /\ x <= 100

Clamp(x, lo, hi) == IF x < lo THEN lo ELSE IF x > hi THEN hi ELSE x

\* the three assert!s of calculate_drift_score
ComponentsValidCanonicalUnchecked(self_similarity, peer_similarity, canonical_similarity) ==
    InUnitRange(self_similarity) /\ InUnitRange(peer_similarity)
ComponentsValid(self_similarity, peer_similarity, canonical_similarity) ==
    /\ InUnitRange(self_similarity)
    /\ InUnitRange(peer_similarity)
    /\ InUnitRange(canonical_similarity)

\* DriftEngine::calculate_drift_score: a panic, or the score in ten-thousandths
calculate_drift_score(self_similarity, peer_similarity, canonical_similarity) ==
    IF ~ComponentsValid(self_similarity, peer_similarity, canonical_similarity)
    THEN [panicked |-> TRUE, score |-> 0]
    ELSE [panicked |-> FALSE,
          score |-> Clamp(self_similarity * self_weight
                            + peer_similarity * peer_weight
                            + canonical_similarity * canonical_weight, 0, 10000)]

RECURSIVE SumSeq(_)
SumSeq(q) == IF q = <<>> THEN 0 ELSE q[1] + SumSeq(Tail(q))

\* sum of (d - mean)^2 over the drifts, times n^2: the sum of (n * d - sum)^2
SquaredDeviations(model_drifts) ==
    LET n == Len(model_drifts)
        sum == SumSeq(model_drifts)
    IN  SumSeq([k \in 1..n |-> (n * model_drifts[k] - sum) * (n * model_drifts[k] - sum)])

\* std_dev > 0.2, on the radicand: variance > 0.04 (drifts in hundredths)
DisagreesAtThreshold(squares, n) == squares >= 400 * n * n * n
Disagrees(squares, n) == squares > 400 * n * n * n

\* DriftEngine::calculate_ensemble_drift(model_drifts): drifts in hundredths, the
\* result in thousandths, rounded down
calculate_ensemble_drift(model_drifts) ==
    IF model_drifts = <<>>
    THEN 0
    ELSE LET n == Len(model_drifts)
             mean == (SumSeq(model_drifts) * 10) \div n
             squares == SquaredDeviations(model_drifts)
             std_dev == ISqrt((squares * 100) \div (n * n * n))
         IN  IF Disagrees(squares, n) THEN mean + std_dev ELSE mean

\* the embeddings the functions are applied to
Components == {0 - (One \div 2), 0 - (One \div 4), 0, One \div 4, One \div 2, One}
Embeddings == [1..EmbeddingDim -> Components]

\* the embeddings of a history
HistoryComponents == {0, One \div 4}
HistoryEmbeddings == [1..EmbeddingDim -> HistoryComponents]

\* the similarity components, in hundredths, in and out of [0, 1]
SimilarityInputs == {0 - 10, 0, 50, 70, 80, 90, 100, 110}

\* the drifts of the models, in hundredths
ModelDrifts == {0, 10, 30, 50, 90, 100}
RECURSIVE SeqsUpTo(_, _)
SeqsUpTo(S, n) ==
    IF n = 0 THEN {<<>>}
    ELSE LET shorter == SeqsUpTo(S, n - 1)
         IN  shorter \cup {Append(q, x) : q \in shorter, x \in S}

InitDrift ==
    /\ drift_call = "none"
    /\ drift_args = <<>>
    /\ drift_ret = <<>>

\* the engine is not used
DriftOff ==
    /\ drift_call = "off"
    /\ drift_args = <<>>
    /\ drift_ret = <<>>

CosineSimilarity ==
    /\ drift_call = "none"
    /\ \E a, b \in Embeddings :
        /\ drift_args' = <<a, b>>
        /\ drift_ret' = cosine_similarity(a, b)
    /\ drift_call' = "cosine_similarity"
    /\ UNCHANGED <<cvars, mvars, qvars, rvars, nvars, bvars, svars, pvars, wvars, kvars>>

CreateDriftScore ==
    /\ drift_call = "none"
    /\ \E a, b \in Embeddings :
        /\ drift_args' = <<a, b>>
        /\ drift_ret' = create_drift_score(a, b)
    /\ drift_call' = "create_drift_score"
    /\ UNCHANGED <<cvars, mvars, qvars, rvars, nvars, bvars, svars, pvars, wvars, kvars>>

ClassifyDrift ==
    /\ drift_call = "none"
    /\ \E s \in 0..100 :
        /\ drift_args' = <<s>>
        /\ drift_ret' = classify_drift(s, 100)
    /\ drift_call' = "classify_drift"
    /\ UNCHANGED <<cvars, mvars, qvars, rvars, nvars, bvars, svars, pvars, wvars, kvars>>

CalculateDriftScore ==
    /\ drift_call = "none"
    /\ \E s, p, c \in SimilarityInputs :
        /\ drift_args' = <<s, p, c>>
        /\ drift_ret' = calculate_drift_score(s, p, c)
    /\ drift_call' = "calculate_drift_score"
    /\ UNCHANGED <<cvars, mvars, qvars, rvars, nvars, bvars, svars, pvars, wvars, kvars>>

CalculateEnsembleDrift ==
    /\ drift_call = "none"
    /\ \E model_drifts \in SeqsUpTo(ModelDrifts, MaxModels) :
        /\ drift_args' = model_drifts
        /\ drift_ret' = calculate_ensemble_drift(model_drifts)
    /\ drift_call' = "calculate_ensemble_drift"
    /\ UNCHANGED <<cvars, mvars, qvars, rvars, nvars, bvars, svars, pvars, wvars, kvars>>

CalculateTemporalDrift ==
    /\ drift_call = "none"
    /\ \E embeddings \in SeqsUpTo(HistoryEmbeddings, MaxHistory) :
        /\ drift_args' = embeddings
        /\ drift_ret' = calculate_temporal_drift(embeddings)
    /\ drift_call' = "calculate_temporal_drift"
    /\ UNCHANGED <<cvars, mvars, qvars, rvars, nvars, bvars, svars, pvars, wvars, kvars>>

NextDrift ==
    \/ CosineSimilarity
    \/ CreateDriftScore
    \/ ClassifyDrift
    \/ CalculateDriftScore
    \/ CalculateEnsembleDrift
    \/ CalculateTemporalDrift

(***************************************************************************)
(* Competitive ranking (src/src/ranking.rs)                                *)
(*                                                                         *)
(* Drift scores are in hundredths, avg_drift and score in ten-thousandths, *)
(* stability_score in hundredths.                                          *)
(***************************************************************************)

Subjects == <<"A", "B", "C", "D">>

\* rows of domain_responses of one domain, counted by normalized_status
ResponseRows ==
    {[valid |-> 0, malformed |-> 0, empty |-> 0],
     [valid |-> 5, malformed |-> 1, empty |-> 1],
     [valid |-> 10, malformed |-> 0, empty |-> 0]}

\* drift_score of the rows of drift_scores of one domain
DriftRows == {<<>>, <<10>>, <<10, 90>>}

\* the rows of the three tables that belong to one domain
DomainRows ==
    [status : {"pending", "completed"}, responses : ResponseRows, drifts : DriftRows]

\* the values of the query parameter limit (100 when absent)
Limits == {2, 100}

\* SELECT domain FROM domains WHERE status = 'completed' LIMIT $1
FetchCompleted(rows, limit) ==
    LET completed == SelectSeq(rows, LAMBDA row : row.status = "completed")
    IN  SubSeq(completed, 1, Min(limit, Len(completed)))

\* SELECT COUNT(*) .. WHERE d.domain = $1 AND dr.normalized_status = 'valid'
count_citationsAnyStatus(row) ==
    row.responses.valid + row.responses.malformed + row.responses.empty
count_citations(row) == row.responses.valid

\* SELECT AVG(drift_score) .. WHERE domain = $1, and unwrap_or(0.0)
get_avg_drift(row) ==
    IF row.drifts = <<>> THEN 0 ELSE (100 * SumSeq(row.drifts)) \div Len(row.drifts)

\* the BrandScore pushed for one fetched row
BrandScoreOf(row) ==
    LET citation_count == count_citations(row)
        avg_drift == get_avg_drift(row)
    IN  [domain |-> row.domain,
         rank |-> 0,
         score |-> citation_count * 7000 + (10000 - avg_drift) * 30,
         citation_count |-> citation_count,
         avg_drift |-> avg_drift,
         stability_score |-> 10000 - avg_drift]

\* scores.sort_by(|a, b| b.score.partial_cmp(&a.score)): a stable sort, so an
\* element goes behind the elements that compare equal to it
InsertByScoreBeforeTies(sorted, x) ==
    LET k == Cardinality({i \in DOMAIN sorted : sorted[i].score > x.score})
    IN  SubSeq(sorted, 1, k) \o <<x>> \o SubSeq(sorted, k + 1, Len(sorted))
InsertByScore(sorted, x) ==
    LET k == Cardinality({i \in DOMAIN sorted : sorted[i].score >= x.score})
    IN  SubSeq(sorted, 1, k) \o <<x>> \o SubSeq(sorted, k + 1, Len(sorted))

RECURSIVE SortUpTo(_, _)
SortUpTo(scores, n) ==
    IF n = 0 THEN <<>> ELSE InsertByScore(SortUpTo(scores, n - 1), scores[n])
SortByScore(scores) == SortUpTo(scores, Len(scores))

\* score.rank = (i + 1) as i64, i counting from 0
AssignRanks(scores) == [i \in DOMAIN scores |-> [scores[i] EXCEPT !.rank = i]]

\* compute_rankings(db, cohort, limit) when no query fails
compute_rankings(rows, limit) ==
    LET fetched == FetchCompleted(rows, limit)
        scores == [i \in DOMAIN fetched |-> BrandScoreOf(fetched[i])]
    IN  AssignRanks(SortByScore(scores))

InitRanking ==
    /\ rank_pc = "none"
    /\ \E rows \in [1..MaxSubjects -> DomainRows] :
        domain_rows = [k \in 1..MaxSubjects |->
                          [domain |-> Subjects[k], status |-> rows[k].status,
                           responses |-> rows[k].responses, drifts |-> rows[k].drifts]]
    /\ rankings = <<>>

\* compute_rankings is not called
RankingOff ==
    /\ rank_pc = "off"
    /\ domain_rows = <<>>
    /\ rankings = <<>>

\* compute_rankings returns Ok(scores)
ComputeRankings ==
    /\ rank_pc = "none"
    /\ \E limit \in Limits : rankings' = compute_rankings(domain_rows, limit)
    /\ rank_pc' = "ok"
    /\ UNCHANGED domain_rows
    /\ UNCHANGED <<cvars, mvars, qvars, dvars, nvars, bvars, svars, pvars, wvars, kvars>>

\* one of the queries fails: `?` returns the error
ComputeRankingsErr ==
    /\ rank_pc = "none"
    /\ rank_pc' = "err"
    /\ UNCHANGED <<domain_rows, rankings>>
    /\ UNCHANGED <<cvars, mvars, qvars, dvars, nvars, bvars, svars, pvars, wvars, kvars>>

NextRanking ==
    \/ ComputeRankings
    \/ ComputeRankingsErr

(***************************************************************************)
(* Response normalizer (src/src/normalizer.rs)                             *)
(*                                                                         *)
(* A text is a sequence of tokens, each standing for a fixed string of     *)
(* characters: words, white space, the code fence and the two ends of a    *)
(* JSON object with one string field.                                      *)
(***************************************************************************)

Word8 == "xxxxxxxx"           \* a word of 8 letters
Word90 == "x90"               \* a word of 90 letters
Accented == "e-acute"         \* one letter of two bytes
Indicator == "Error"
Fence == "fence"              \* three backticks
ContentOpen == "{content:"    \* brace, the quoted field name content, colon, quote
DataOpen == "{data:"          \* the same with the field name data
ObjectClose == "}"            \* quote, brace
LF == "LF"                    \* line feed
CR == "CR"                    \* carriage return

WhiteSpace == {" ", LF, CR}
Tokens ==
    {Word8, Word90, Accented, Indicator, Fence, ContentOpen, DataOpen, ObjectClose}
        \cup WhiteSpace

\* the length of a token in bytes (str::len) and in characters
Bytes(token) ==
    CASE token = Word8 -> 8
      [] token = Word90 -> 90
      [] token = Accented -> 2
      [] token = Indicator -> 5
      [] token = Fence -> 3
      [] token = ContentOpen -> 12
      [] token = DataOpen -> 9
      [] token = ObjectClose -> 2
      [] token \in WhiteSpace -> 1
Chars(token) == IF token = Accented THEN 1 ELSE Bytes(token)

ByteLen(text) == SumSeq([i \in DOMAIN text |-> Bytes(text[i])])
CharLen(text) == SumSeq([i \in DOMAIN text |-> Chars(text[i])])

\* str::trim
RECURSIVE TrimStart(_)
TrimStart(text) ==
    IF text # <<>> /\ text[1] \in WhiteSpace THEN TrimStart(Tail(text)) ELSE text
RECURSIVE TrimEnd(_)
TrimEnd(text) ==
    IF text # <<>> /\ text[Len(text)] \in WhiteSpace
    THEN TrimEnd(SubSeq(text, 1, Len(text) - 1))
    ELSE text
Trim(text) == TrimEnd(TrimStart(text))

\* serde_json::from_str(text) is Ok and the value is an object with one string
\* field: a raw line break, a quote or a brace ends or breaks the string
InJsonString(token) == token \in {Word8, Word90, Accented, Indicator, Fence, " "}
IsJsonObject(text) ==
    /\ Len(text) >= 2
    /\ text[1] \in {ContentOpen, DataOpen}
    /\ text[Len(text)] = ObjectClose
    /\ \A i \in 2..(Len(text) - 1) : InJsonString(text[i])

\* the loop over the field names content, answer, text, response, message
HasKnownField(text) == text[1] = ContentOpen

\* extract_content(raw)
extract_content(raw) ==
    LET text == Trim(raw)
    IN  IF IsJsonObject(text) /\ HasKnownField(text)
        THEN SubSeq(text, 2, Len(text) - 1)
        ELSE SelectSeq(text, LAMBDA token : token # Fence)

\* the two replace calls of clean_text: CR LF becomes LF, then CR becomes LF
RECURSIVE NormalizeLineEndings(_)
NormalizeLineEndings(text) ==
    IF text = <<>> THEN <<>>
    ELSE IF text[1] = CR /\ Len(text) >= 2 /\ text[2] = LF
         THEN <<LF>> \o NormalizeLineEndings(Tail(Tail(text)))
    ELSE IF text[1] = CR THEN <<LF>> \o NormalizeLineEndings(Tail(text))
    ELSE <<text[1]>> \o NormalizeLineEndings(Tail(text))

\* text.lines(): the pieces between line feeds, a final line feed ending the
\* last line
RECURSIVE SplitLines(_, _)
SplitLines(text, line) ==
    IF text = <<>> THEN (IF line = <<>> THEN <<>> ELSE <<line>>)
    ELSE IF text[1] = LF THEN <<line>> \o SplitLines(Tail(text), <<>>)
    ELSE SplitLines(Tail(text), Append(line, text[1]))
Lines(text) == SplitLines(text, <<>>)

\* line.split_whitespace().collect::<Vec<_>>().join(" ")
RECURSIVE CollapseSpaces(_)
CollapseSpaces(line) ==
    IF line = <<>> THEN <<>>
    ELSE IF line[1] = " " /\ Len(line) >= 2 /\ line[2] = " " THEN CollapseSpaces(Tail(line))
    ELSE <<line[1]>> \o CollapseSpaces(Tail(line))
CleanLine(line) == Trim(CollapseSpaces(line))

\* cleaned_lines.join with a line feed
RECURSIVE JoinLines(_)
JoinLines(lines) ==
    IF lines = <<>> THEN <<>>
    ELSE IF Len(lines) = 1 THEN lines[1]
    ELSE lines[1] \o <<LF>> \o JoinLines(Tail(lines))

\* clean_text(text)
clean_text(text) ==
    LET lines == Lines(NormalizeLineEndings(text))
        cleaned_lines == [i \in DOMAIN lines |-> CleanLine(lines[i])]
    IN  Trim(JoinLines(cleaned_lines))

\* text_lower.contains(indicator) for one of the malformed_indicators
ContainsIndicator(text) == \E i \in DOMAIN text : text[i] = Indicator

\* classify_status(text)
classify_status(text) ==
    IF text = <<>> \/ ByteLen(text) < 10 THEN "empty"
    ELSE IF ContainsIndicator(text) /\ ByteLen(text) < 100 THEN "malformed"
    ELSE "valid"

\* normalize_response(raw_response, _model)
normalize_response(raw) ==
    LET text == clean_text(extract_content(raw))
    IN  [answer |-> text, status |-> classify_status(text)]

InitNormalizer ==
    /\ norm_pc = "none"
    /\ raw_response \in SeqsUpTo(Tokens, MaxTokens)
    /\ first_pass = <<>>
    /\ second_pass = <<>>

\* the normalizer is not called
NormalizerOff ==
    /\ norm_pc = "off"
    /\ raw_response = <<>>
    /\ first_pass = <<>>
    /\ second_pass = <<>>

\* normalize_response on the raw payload
NormalizeResponse ==
    /\ norm_pc = "none"
    /\ first_pass' = normalize_response(raw_response)
    /\ norm_pc' = "once"
    /\ UNCHANGED <<raw_response, second_pass>>
    /\ UNCHANGED <<cvars, mvars, qvars, dvars, rvars, bvars, svars, pvars, wvars, kvars>>

\* normalize_response on the answer of the first pass
NormalizeAgain ==
    /\ norm_pc = "once"
    /\ second_pass' = normalize_response(first_pass.answer)
    /\ norm_pc' = "twice"
    /\ UNCHANGED <<raw_response, first_pass>>
    /\ UNCHANGED <<cvars, mvars, qvars, dvars, rvars, bvars, svars, pvars, wvars, kvars>>

NextNormalizer ==
    \/ NormalizeResponse
    \/ NormalizeAgain

(***************************************************************************)
(* The delays of the two retry loops, for two providers whose calls fail   *)
(* at every attempt                                                        *)
(***************************************************************************)

\* the adapters initialize_providers can build, by provider.name()
Adapters == <<"openai", "anthropic", "perplexity">>

\* the speed tier AIProviderManager::new gives the provider of that name
SpeedTierOf(name) ==
    ProviderTable[CHOOSE k \in DOMAIN ProviderTable : ProviderTable[k].name = name].speed_tier

InitBackoff ==
    /\ \/ /\ retry_loop = "manager"
          /\ retry_pair \in {<<p, q>> : p, q \in {ProviderTable[k].name : k \in DOMAIN ProviderTable}}
       \/ /\ retry_loop = "crawler"
          /\ retry_pair \in {<<p, q>> : p, q \in {Adapters[k] : k \in DOMAIN Adapters}}
    /\ retry_delays = <<(<<>>), (<<>>)>>

\* no retry loop is followed
BackoffOff ==
    /\ retry_loop = "off"
    /\ retry_pair = <<>>
    /\ retry_delays = <<>>

\* query_provider_with_throttling: attempt `attempt` fails for both and is not
\* the last, each sleeps its delay
ManagerRetry ==
    /\ retry_loop = "manager"
    /\ LET attempt == Len(retry_delays[1]) + 1
       IN  /\ MoreAttempts(attempt)
           /\ retry_delays' =
                [k \in 1..2 |->
                    Append(retry_delays[k],
                           ManagerBackoffMs(SpeedTierOf(retry_pair[k]), attempt))]
    /\ UNCHANGED <<retry_loop, retry_pair>>
    /\ UNCHANGED <<cvars, mvars, qvars, dvars, rvars, nvars, svars, pvars, wvars, kvars>>

\* process_domain_provider: the query fails for both, retry_count is incremented
\* and below max_retries, each sleeps its delay
CrawlerRetry ==
    /\ retry_loop = "crawler"
    /\ LET retry_count == Len(retry_delays[1]) + 1
       IN  /\ ~RetriesExhausted(retry_count)
           /\ retry_delays' =
                [k \in 1..2 |-> Append(retry_delays[k], BackoffMs(retry_count))]
    /\ UNCHANGED <<retry_loop, retry_pair>>
    /\ UNCHANGED <<cvars, mvars, qvars, dvars, rvars, nvars, svars, pvars, wvars, kvars>>

NextBackoff ==
    \/ ManagerRetry
    \/ CrawlerRetry

(***************************************************************************)
(* db::insert_response over the tasks of a batch, completing in any order  *)
(***************************************************************************)

\* the calls of insert_response a batch makes: one per domain, provider and prompt
InsertCalls ==
    {[domain_id |-> d, model |-> Providers[p], prompt_type |-> Prompts[k]] :
        d \in 1..MaxDomains, p \in DOMAIN Providers, k \in DOMAIN Prompts}

\* the conflict target of the statement
StoreKeys == {[domain_id |-> d, model |-> Providers[p]] : d \in 1..MaxDomains, p \in DOMAIN Providers}
KeyOf(row) == [domain_id |-> row.domain_id, model |-> row.model]

\* a row an earlier batch left
OldRow(key) ==
    [domain_id |-> key.domain_id, model |-> key.model,
     prompt_type |-> Prompts[1], batch_id |-> "earlier"]

\* the row the statement binds
NewRow(call) ==
    [domain_id |-> call.domain_id, model |-> call.model,
     prompt_type |-> call.prompt_type, batch_id |-> "current"]

\* INSERT ... ON CONFLICT (domain_id, model) DO UPDATE SET prompt_type = $3, ...
UpsertDoNothing(rows, row) ==
    IF \E r \in rows : KeyOf(r) = KeyOf(row) THEN rows ELSE rows \cup {row}
Upsert(rows, row) ==
    {r \in rows : KeyOf(r) # KeyOf(row)} \cup {row}

InitStore ==
    /\ insert_pc = "run"
    /\ pending_inserts = InsertCalls
    /\ \E keys \in SUBSET StoreKeys : domain_responses = {OldRow(k) : k \in keys}
    /\ latest_write = [k \in StoreKeys |-> "none"]

\* no batch writes
StoreOff ==
    /\ insert_pc = "off"
    /\ pending_inserts = {}
    /\ domain_responses = {}
    /\ latest_write = <<>>

\* a task's provider call succeeded and its insert_response is executed
InsertResponse ==
    /\ insert_pc = "run"
    /\ \E call \in pending_inserts :
        /\ pending_inserts' = pending_inserts \ {call}
        /\ domain_responses' = Upsert(domain_responses, NewRow(call))
        /\ latest_write' = [latest_write EXCEPT ![KeyOf(call)] = call.prompt_type]
    /\ UNCHANGED insert_pc
    /\ UNCHANGED <<cvars, mvars, qvars, dvars, rvars, nvars, bvars, pvars, wvars, kvars>>

\* a task returns without a write: its calls were exhausted or the statement failed
InsertResponseErr ==
    /\ insert_pc = "run"
    /\ \E call \in pending_inserts :
        pending_inserts' = pending_inserts \ {call}
    /\ UNCHANGED <<insert_pc, domain_responses, latest_write>>
    /\ UNCHANGED <<cvars, mvars, qvars, dvars, rvars, nvars, bvars, pvars, wvars, kvars>>

NextStore ==
    \/ InsertResponse
    \/ InsertResponseErr

(***************************************************************************)
(* process_pending_domains of the runner: the loop over the fetched        *)
(* domains and the three prompts                                           *)
(***************************************************************************)

\* what process_domain_with_all_providers returns for a prompt: the error, or the
\* responses of the providers that succeeded
PromptOutcomes == {[is |-> "err", responses |-> 0]} \cup
                  {[is |-> "ok", responses |-> n] : n \in 1..2}

\* Err(e) => domain_success = false; Ok leaves it
DomainSuccessLastPromptOnly(success, outcome) == outcome.is = "ok"
DomainSuccessAfter(success, outcome) == success /\ outcome.is = "ok"

\* the for loop moves to the next fetched domain, or the handler answers
NextDomain ==
    IF domain_idx < Len(fetched_domains)
    THEN /\ domain_idx' = domain_idx + 1
         /\ pend_pc' = "mark"
    ELSE /\ pend_pc' = "ok"
         /\ UNCHANGED domain_idx

\* domains_processed of the answer
domains_processed == successful_domains + failed_domains

InitPending ==
    /\ pend_pc = "fetch"
    /\ \E n \in 0..MaxPending : fetched_domains = [i \in 1..n |-> i]
    /\ domain_idx = 0
    /\ prompt_idx = 0
    /\ domain_success = TRUE
    /\ domain_status = [i \in DOMAIN fetched_domains |-> "pending"]
    /\ prompt_outcomes = [i \in DOMAIN fetched_domains |-> <<>>]
    /\ saved_responses = 0
    /\ successful_domains = 0
    /\ failed_domains = 0

\* the handler is not running
PendingOff ==
    /\ pend_pc = "off"
    /\ fetched_domains = <<>>
    /\ domain_idx = 0
    /\ prompt_idx = 0
    /\ domain_success = TRUE
    /\ domain_status = <<>>
    /\ prompt_outcomes = <<>>
    /\ saved_responses = 0
    /\ successful_domains = 0
    /\ failed_domains = 0

\* db_manager.get_pending_domains(100): Err answers 500, an empty list answers
\* no_pending_domains, otherwise the loop starts
GetPendingDomains ==
    /\ pend_pc = "fetch"
    /\ \/ pend_pc' = "err" /\ UNCHANGED domain_idx
       \/ IF Len(fetched_domains) = 0
          THEN pend_pc' = "ok" /\ UNCHANGED domain_idx
          ELSE pend_pc' = "mark" /\ domain_idx' = 1
    /\ UNCHANGED <<fetched_domains, prompt_idx, domain_success, domain_status,
                   prompt_outcomes, saved_responses, successful_domains, failed_domains>>
    /\ UNCHANGED <<cvars, mvars, qvars, dvars, rvars, nvars, bvars, svars, wvars, kvars>>

\* db_manager.mark_domain_processing(domain_id): Err skips the domain (continue)
MarkDomainProcessing ==
    /\ pend_pc = "mark"
    /\ \/ /\ domain_status' = [domain_status EXCEPT ![domain_idx] = "processing"]
          /\ domain_success' = TRUE
          /\ prompt_idx' = 1
          /\ pend_pc' = "prompt"
          /\ UNCHANGED domain_idx
       \/ /\ NextDomain
          /\ UNCHANGED <<domain_status, domain_success, prompt_idx>>
    /\ UNCHANGED <<fetched_domains, prompt_outcomes, saved_responses, successful_domains,
                   failed_domains>>
    /\ UNCHANGED <<cvars, mvars, qvars, dvars, rvars, nvars, bvars, svars, wvars, kvars>>

\* one iteration of the loop over the prompts: the pass, then the saves of its
\* responses, each counted when save_domain_response returns Ok
ProcessPrompt ==
    /\ pend_pc = "prompt"
    /\ \E outcome \in PromptOutcomes :
        /\ prompt_outcomes' = [prompt_outcomes EXCEPT ![domain_idx] = Append(@, outcome.is)]
        /\ domain_success' = DomainSuccessAfter(domain_success, outcome)
        /\ \E saved \in 0..outcome.responses : saved_responses' = saved_responses + saved
    /\ IF prompt_idx < Len(Prompts)
       THEN prompt_idx' = prompt_idx + 1 /\ UNCHANGED pend_pc
       ELSE pend_pc' = "status" /\ UNCHANGED prompt_idx
    /\ UNCHANGED <<fetched_domains, domain_idx, domain_status, successful_domains,
                   failed_domains>>
    /\ UNCHANGED <<cvars, mvars, qvars, dvars, rvars, nvars, bvars, svars, wvars, kvars>>

\* mark_domain_completed or mark_domain_failed; the domain is counted when the
\* UPDATE returned Ok
UpdateStatus ==
    /\ pend_pc = "status"
    /\ \/ /\ domain_status' = [domain_status EXCEPT ![domain_idx] =
                                IF domain_success THEN "completed" ELSE "failed"]
          /\ successful_domains' = successful_domains + (IF domain_success THEN 1 ELSE 0)
          /\ failed_domains' = failed_domains + (IF domain_success THEN 0 ELSE 1)
       \/ UNCHANGED <<domain_status, successful_domains, failed_domains>>
    /\ NextDomain
    /\ UNCHANGED <<fetched_domains, prompt_idx, domain_success, prompt_outcomes,
                   saved_responses>>
    /\ UNCHANGED <<cvars, mvars, qvars, dvars, rvars, nvars, bvars, svars, wvars, kvars>>

NextPending ==
    \/ GetPendingDomains
    \/ MarkDomainProcessing
    \/ ProcessPrompt
    \/ UpdateStatus

(***************************************************************************)
(* Worker::process_drift_monitoring                                        *)
(***************************************************************************)

\* the domains of the stored responses
MonitoredDomains == {Subjects[1], Subjects[2]}

\* response.embedding: None, or Some(embedding)
NoEmbedding == <<>>
\* the embeddings stored: the zero vector, two orthogonal ones and their diagonal
StoredEmbeddingValues ==
    {[i \in 1..EmbeddingDim |-> IF i \in axes THEN One \div 4 ELSE 0] : axes \in SUBSET {1, 2}}
StoredRows == [domain : MonitoredDomains, embedding : StoredEmbeddingValues \cup {NoEmbedding}]

\* ORDER BY dr.timestamp DESC: the rows from the newest to the oldest
RECURSIVE Reversed(_)
Reversed(s) == IF s = <<>> THEN <<>> ELSE Append(Reversed(Tail(s)), Head(s))
get_domain_responses(rows) == Reversed(rows)

\* the embeddings pushed for a domain, in the order of the fetched rows
EmbeddingsOf(domain, responses) ==
    LET mine == SelectSeq(responses,
                    LAMBDA r : r.domain = domain /\ r.embedding # NoEmbedding)
    IN  [k \in DOMAIN mine |-> mine[k].embedding]

\* if *latest_drift > 0.3
HighDriftAnyDrift(latest_drift) == latest_drift > 0
HighDrift(latest_drift) == 10 * latest_drift > 3 * One

\* drifts.last()
LatestDrift(embeddings) ==
    LET drifts == calculate_temporal_drift(embeddings)
    IN  drifts[Len(drifts)]

\* the DriftScore record built for a domain
DriftRecord(domain, latest_drift) ==
    [domain |-> domain,
     similarity_prev |-> FAdd(One, 0 - latest_drift),
     drift_score |-> latest_drift,
     status |-> classify_drift(FAdd(One, 0 - latest_drift), One)]

InitMonitor ==
    /\ monitor_pc = "fetch"
    /\ response_rows \in SeqsUpTo(StoredRows, MaxResponses)
    /\ domain_embeddings = <<>>
    /\ unchecked_domains = {}
    /\ compared_drift = <<>>
    /\ drift_scores = {}

\* the worker does not monitor
MonitorOff ==
    /\ monitor_pc = "off"
    /\ response_rows = <<>>
    /\ domain_embeddings = <<>>
    /\ unchecked_domains = {}
    /\ compared_drift = <<>>
    /\ drift_scores = {}

\* self.db.get_domain_responses(None, None, 100).await? and the grouping loop
GroupByDomain ==
    /\ monitor_pc = "fetch"
    /\ \/ LET responses == get_domain_responses(response_rows)
              keys == {responses[k].domain :
                        k \in {j \in DOMAIN responses : responses[j].embedding # NoEmbedding}}
          IN  /\ domain_embeddings' = [d \in keys |-> EmbeddingsOf(d, responses)]
              /\ unchecked_domains' = keys
              /\ monitor_pc' = "loop"
       \/ /\ monitor_pc' = "err"
          /\ UNCHANGED <<domain_embeddings, unchecked_domains>>
    /\ UNCHANGED <<response_rows, compared_drift, drift_scores>>
    /\ UNCHANGED <<cvars, mvars, qvars, dvars, rvars, nvars, bvars, svars, pvars, kvars>>

\* one iteration of the loop over the map, whose order is arbitrary
CheckDomain ==
    /\ monitor_pc = "loop"
    /\ \E domain \in unchecked_domains :
        LET embeddings == domain_embeddings[domain]
        IN  /\ unchecked_domains' = unchecked_domains \ {domain}
            /\ IF Len(embeddings) < 2
               THEN UNCHANGED <<monitor_pc, compared_drift, drift_scores>>
               ELSE LET latest_drift == LatestDrift(embeddings)
                    IN  /\ compared_drift' =
                            [d \in (DOMAIN compared_drift) \cup {domain} |->
                                IF d = domain THEN latest_drift ELSE compared_drift[d]]
                        /\ IF HighDrift(latest_drift)
                           THEN \/ /\ drift_scores' =
                                        drift_scores \cup {DriftRecord(domain, latest_drift)}
                                   /\ UNCHANGED monitor_pc
                                \/ /\ monitor_pc' = "err"
                                   /\ UNCHANGED drift_scores
                           ELSE UNCHANGED <<monitor_pc, drift_scores>>
    /\ UNCHANGED <<response_rows, domain_embeddings>>
    /\ UNCHANGED <<cvars, mvars, qvars, dvars, rvars, nvars, bvars, svars, pvars, kvars>>

\* the map is exhausted: Ok(())
MonitoringComplete ==
    /\ monitor_pc = "loop"
    /\ unchecked_domains = {}
    /\ monitor_pc' = "ok"
    /\ UNCHANGED <<response_rows, domain_embeddings, unchecked_domains,
                   compared_drift, drift_scores>>
    /\ UNCHANGED <<cvars, mvars, qvars, dvars, rvars, nvars, bvars, svars, pvars, kvars>>

NextMonitor ==
    \/ GroupByDomain
    \/ CheckDomain
    \/ MonitoringComplete

(***************************************************************************)
(* Database::new: the connection retry loop                                *)
(***************************************************************************)

\* let max_retries = 10; let retry_delay = Duration::from_secs(5);
\* connect_timeout(Duration::from_secs(10))
connect_max_retries == 10
retry_delay == 5
connect_timeout == 10

\* Err(e) if attempt < max_retries
MoreConnectAttemptsInclusive(n) == n <= connect_max_retries
MoreConnectAttempts(n) == n < connect_max_retries

\* the seconds a call of connect can take: at once, or up to the timeout
ConnectSeconds == {0, connect_timeout}

InitConnect ==
    /\ connect_pc = "connect"
    /\ connect_attempt = 1
    /\ attempts_made = 0
    /\ pauses = 0
    /\ connect_elapsed = 0

\* Database::new is not called
ConnectOff ==
    /\ connect_pc = "off"
    /\ connect_attempt = 0
    /\ attempts_made = 0
    /\ pauses = 0
    /\ connect_elapsed = 0

\* connect returns Ok(pool): return Ok(Self { pool })
ConnectOk ==
    /\ connect_pc = "connect"
    /\ \E d \in ConnectSeconds : connect_elapsed' = connect_elapsed + d
    /\ attempts_made' = attempts_made + 1
    /\ connect_pc' = "ok"
    /\ UNCHANGED <<connect_attempt, pauses>>
    /\ UNCHANGED <<cvars, mvars, qvars, dvars, rvars, nvars, bvars, svars, pvars, wvars>>

\* connect returns Err(e): sleep before the next attempt, or return the error
ConnectErr ==
    /\ connect_pc = "connect"
    /\ \E d \in ConnectSeconds : connect_elapsed' = connect_elapsed + d
    /\ attempts_made' = attempts_made + 1
    /\ connect_pc' = IF MoreConnectAttempts(connect_attempt) THEN "sleep" ELSE "err"
    /\ UNCHANGED <<connect_attempt, pauses>>
    /\ UNCHANGED <<cvars, mvars, qvars, dvars, rvars, nvars, bvars, svars, pvars, wvars>>

\* tokio::time::sleep(retry_delay) is over: the next iteration of the loop
RetryDelayElapsed ==
    /\ connect_pc = "sleep"
    /\ connect_elapsed' = connect_elapsed + retry_delay
    /\ pauses' = pauses + 1
    /\ connect_attempt' = connect_attempt + 1
    /\ connect_pc' = "connect"
    /\ UNCHANGED attempts_made
    /\ UNCHANGED <<cvars, mvars, qvars, dvars, rvars, nvars, bvars, svars, pvars, wvars>>

NextConnect ==
    \/ ConnectOk
    \/ ConnectErr
    \/ RetryDelayElapsed

(***************************************************************************)
(* Specifications                                                          *)
(***************************************************************************)

\* one of the two services runs
Init ==
    \/ InitCrawler(0..MaxDomains, 1..MaxConcurrency) /\ ManagerOff /\ QueryOff /\ DriftOff /\ RankingOff /\ NormalizerOff /\ BackoffOff /\ StoreOff /\ PendingOff /\ MonitorOff /\ ConnectOff
    \/ CrawlerOff /\ InitManager /\ QueryOff /\ DriftOff /\ RankingOff /\ NormalizerOff /\ BackoffOff /\ StoreOff /\ PendingOff /\ MonitorOff /\ ConnectOff

Next ==
    \/ NextCrawler
    \/ NextManager

Spec == Init /\ [][Next]_vars

\* the crawler over at most MaxDomains domains
InitCrawlerSmall ==
    InitCrawler(0..MaxDomains, 1..MaxConcurrency) /\ ManagerOff /\ QueryOff /\ DriftOff /\ RankingOff /\ NormalizerOff /\ BackoffOff /\ StoreOff /\ PendingOff /\ MonitorOff /\ ConnectOff

SpecCrawler == InitCrawlerSmall /\ [][NextCrawler]_vars

\* the crawler over two chunks of domains, one task at a time
InitCrawlerBatch == InitCrawler({chunk_size + 1}, {1}) /\ ManagerOff /\ QueryOff /\ DriftOff /\ RankingOff /\ NormalizerOff /\ BackoffOff /\ StoreOff /\ PendingOff /\ MonitorOff /\ ConnectOff

SpecBatch == InitCrawlerBatch /\ [][NextCrawler]_vars

\* the provider manager
InitRunner == CrawlerOff /\ InitManager /\ QueryOff /\ DriftOff /\ RankingOff /\ NormalizerOff /\ BackoffOff /\ StoreOff /\ PendingOff /\ MonitorOff /\ ConnectOff

SpecManager == InitRunner /\ [][NextManager]_vars

\* the query_domain handler
InitHandler == CrawlerOff /\ ManagerOff /\ InitQuery /\ DriftOff /\ RankingOff /\ NormalizerOff /\ BackoffOff /\ StoreOff /\ PendingOff /\ MonitorOff /\ ConnectOff

SpecQuery == InitHandler /\ [][NextQuery]_vars

\* the drift engine's functions, applied to the inputs of the model
InitEngine == CrawlerOff /\ ManagerOff /\ QueryOff /\ InitDrift /\ RankingOff /\ NormalizerOff /\ BackoffOff /\ StoreOff /\ PendingOff /\ MonitorOff /\ ConnectOff

SpecDrift == InitEngine /\ [][NextDrift]_vars

\* compute_rankings over the rows of the model
InitRankings == CrawlerOff /\ ManagerOff /\ QueryOff /\ DriftOff /\ InitRanking /\ NormalizerOff /\ BackoffOff /\ StoreOff /\ PendingOff /\ MonitorOff /\ ConnectOff

SpecRanking == InitRankings /\ [][NextRanking]_vars

\* the normalizer over the payloads of the model
InitPayloads == CrawlerOff /\ ManagerOff /\ QueryOff /\ DriftOff /\ RankingOff /\ InitNormalizer /\ BackoffOff /\ StoreOff /\ PendingOff /\ MonitorOff /\ ConnectOff

SpecNormalizer == InitPayloads /\ [][NextNormalizer]_vars

\* the delays of the retry loops
InitRetries ==
    CrawlerOff /\ ManagerOff /\ QueryOff /\ DriftOff /\ RankingOff /\ NormalizerOff /\ InitBackoff /\ StoreOff /\ PendingOff /\ MonitorOff /\ ConnectOff

SpecBackoff == InitRetries /\ [][NextBackoff]_vars

\* the writes of a batch to domain_responses
InitInserts ==
    CrawlerOff /\ ManagerOff /\ QueryOff /\ DriftOff /\ RankingOff /\ NormalizerOff /\ BackoffOff /\ InitStore /\ PendingOff /\ MonitorOff /\ ConnectOff

SpecStore == InitInserts /\ [][NextStore]_vars

\* one request to process_pending_domains
InitPendingRequest ==
    CrawlerOff /\ ManagerOff /\ QueryOff /\ DriftOff /\ RankingOff /\ NormalizerOff /\ BackoffOff /\ StoreOff /\ InitPending /\ MonitorOff /\ ConnectOff

SpecPending == InitPendingRequest /\ [][NextPending]_vars

\* one round of drift monitoring
InitMonitoring ==
    CrawlerOff /\ ManagerOff /\ QueryOff /\ DriftOff /\ RankingOff /\ NormalizerOff /\ BackoffOff /\ StoreOff /\ PendingOff /\ InitMonitor /\ ConnectOff

SpecMonitor == InitMonitoring /\ [][NextMonitor]_vars

\* one call of Database::new
InitDatabase ==
    CrawlerOff /\ ManagerOff /\ QueryOff /\ DriftOff /\ RankingOff /\ NormalizerOff /\ BackoffOff /\ StoreOff /\ PendingOff /\ MonitorOff /\ InitConnect

SpecConnect == InitDatabase /\ [][NextConnect]_vars

\* the run with weak fairness: the executor keeps polling ready futures, provider
\* and store calls return
FairSpec ==
    /\ InitCrawlerSmall
    /\ [][NextCrawler]_vars
    /\ WF_vars(RecordBatchStart)
    /\ WF_vars(FetchActiveDomains)
    /\ WF_vars(Admit)
    /\ WF_vars(\E i \in TaskIds : TaskStep(i))
    /\ WF_vars(TallyChunk)
    /\ WF_vars(UpdateBatchCompletion)

(***************************************************************************)
(* Properties of CrawlerOrchestrator                                       *)
(***************************************************************************)

\* the futures that hold a permit: past acquire(), not yet returned
Holders == {i \in DOMAIN in_flight : in_flight[i].st \in {"query", "sleep", "insert"}}

\* tasks a run over all fetched domains can make
TotalPossibleCalls == Len(domains) * provider_count(is_configured) * Len(Prompts)

\* C1: at no instant do more than global_concurrency tasks hold an execution slot:
\* the permits held and the permits left in the semaphore always add up to the
\* ceiling, and none is ever overdrawn.
C1_SlotsBounded ==
    /\ Cardinality(Holders) <= config.global_concurrency
    /\ permits >= 0
    /\ permits + Cardinality(Holders) = config.global_concurrency

\* every slot of a ceiling of 2 is held while further tasks of the chunk wait
C1_Witness ==
    /\ config.global_concurrency = 2
    /\ Cardinality(Holders) = 2
    /\ Len(CurrentTasks) >= 5
    /\ stream_pos < Len(CurrentTasks)

\* C4: once a deadline check has seen elapsed > sla_max_secs, the run is past its
\* chunk loop (no task of a later chunk is created or polled), the record's status
\* is only ever running or completed, and the completed record carries the totals
\* of the tasks that ran.
C4_HardStopCompletes ==
    /\ batch.status \in {"none", "running", "completed"}
    /\ breach_seen =>
        /\ run_pc \in {"update", "ok", "err"}
        /\ in_flight = <<>>
        /\ total_calls = tasks_run
        /\ successful + failed = tasks_run
    /\ (breach_seen /\ run_pc = "ok") =>
        /\ batch.status = "completed"
        /\ batch.total_api_calls = tasks_run
        /\ batch.success_count = successful
        /\ batch.error_count = failed

\* the deadline was crossed after the first chunk, the second was never started,
\* and the record is completed with non-zero totals
C4_Witness ==
    /\ breach_seen
    /\ run_pc = "ok"
    /\ batch.status = "completed"
    /\ subjects_run < Len(domains)
    /\ batch.total_api_calls > 0

\* C5: after a hard-deadline stop, every count of the completed record covers only
\* the subjects of the chunks that were run.
C5_CountsCoverRunChunksOnly ==
    (breach_seen /\ batch.status = "completed") =>
        /\ batch.domains_processed = subjects_run
        /\ batch.total_api_calls = tasks_run
        /\ batch.success_count + batch.error_count = tasks_run

\* C6: a task that fails is one failure in the tallies and aborts nothing: every
\* tallied chunk had all of its tasks run, and a run that ends without a deadline
\* stop has run every chunk.
C6_FailureIsolated ==
    /\ failed + results.err = exhausted + insert_failed
    /\ successful + results.ok = tasks_run - (exhausted + insert_failed)
    /\ total_calls = subjects_run * provider_count(is_configured) * Len(Prompts)
    /\ (run_pc \in {"update", "ok", "err"} /\ ~breach_seen) => subjects_run = Len(domains)

\* a task of the first chunk exhausted its retries, was tallied as a failure, and
\* the second chunk is running
C6_Witness ==
    /\ run_pc = "chunk"
    /\ chunk_lo = chunk_size
    /\ exhausted = 1
    /\ failed = 1
    /\ stream_pos >= 1

\* C8: a task that finds no free slot waits and is not dropped: every task of the
\* chunk comes to hold a slot, and the chunk ends with every task tallied as one
\* success or one failure.
C8_EveryTaskRuns ==
    /\ \A i \in TaskIds :
        (run_pc = "chunk" /\ i \in DOMAIN CurrentTasks /\ stream_pos < i)
            ~> (i \in Holders)
    /\ (run_pc = "chunk")
            ~> (/\ run_pc = "update"
                /\ total_calls = TotalPossibleCalls
                /\ successful + failed = total_calls)

\* a polled future waits for its turn while every slot is held
C8_Witness ==
    /\ Cardinality(Holders) = config.global_concurrency
    /\ stream_pos < Len(CurrentTasks)
    /\ faults > 0

\* C9: successful + failed = total_calls, and no count exceeds
\* subjects x configured providers x prompts, in every state.
C9_CountsBounded ==
    /\ successful + failed = total_calls
    /\ total_calls <= TotalPossibleCalls
    /\ batch.total_api_calls <= TotalPossibleCalls
    /\ batch.success_count + batch.error_count = batch.total_api_calls

\* a run stopped by the hard deadline, with failures among its tallies
C9_Witness ==
    /\ breach_seen
    /\ run_pc = "ok"
    /\ failed > 0
    /\ successful > 0
    /\ total_calls < TotalPossibleCalls

\* C10: a batch record created with status running is closed when run() returns,
\* whether it reached its end or stopped on a fatal error.
C10_BatchClosedOnReturn ==
    (run_pc \in {"ok", "err"} /\ batch.status # "none") => batch.status = "completed"

(***************************************************************************)
(* Properties of AIProviderManager and of the retry loops                  *)
(***************************************************************************)

ProviderNamed(n) == ProviderTable[CHOOSE k \in DOMAIN ProviderTable : NameOf(k) = n]

\* C2: two consecutive calls to the same provider are never admitted closer
\* together than 60000 / rate_limit_per_minute ms.
C2_AdmissionsPaced ==
    \A n \in ProviderNames :
        Len(admitted[n]) = 2 => admitted[n][2] - admitted[n][1] >= MinDelayMs(ProviderNamed(n))

IsPrefix(a, b) == Len(a) <= Len(b) /\ a = SubSeq(b, 1, Len(a))

\* three attempts, each after the first following the failure and the backoff of
\* the one before
RetryPattern == <<"call", "fail", "slept", "call", "fail", "slept", "call", "fail">>

\* the events of a task so far: a prefix of RetryPattern, or such a prefix that
\* ends with a call, followed by its success and nothing else
SequentialAttempts(log) ==
    \/ IsPrefix(log, RetryPattern)
    \/ /\ Len(log) >= 2
       /\ log[Len(log)] = "ok"
       /\ log[Len(log) - 1] = "call"
       /\ IsPrefix(SubSeq(log, 1, Len(log) - 1), RetryPattern)

\* C3: a task makes at most 3 provider calls, one after another, each later one
\* after the failure and the elapsed backoff of the one before, and none after a
\* success; in the crawler's futures and in the manager's.
C3_AttemptsBoundedSequential ==
    /\ \A i \in DOMAIN in_flight :
        /\ SequentialAttempts(in_flight[i].log)
        /\ in_flight[i].st = "insert" => in_flight[i].log[Len(in_flight[i].log)] = "ok"
    /\ \A t \in DOMAIN mtasks :
        /\ SequentialAttempts(mtasks[t].log)
        /\ mtasks[t].attempt <= max_retries
        /\ (mtasks[t].st = "query" /\ mtasks[t].attempt > 1) =>
                mtasks[t].called_at >= mtasks[t].wake
        /\ mtasks[t].st = "done_ok" => mtasks[t].log[Len(mtasks[t].log)] = "ok"

\* a manager task has failed its third attempt and given up
C3_Witness ==
    \E t \in DOMAIN mtasks : mtasks[t].st = "done_err" /\ mtasks[t].log = RetryPattern

\* a crawler task is in its third attempt
C3_WitnessCrawler ==
    \E i \in DOMAIN in_flight :
        /\ in_flight[i].st = "query"
        /\ in_flight[i].log = SubSeq(RetryPattern, 1, 7)

\* the tasks inside apply_rate_limiting: the entry read, the sleep not yet over
InSection(t) == mtasks[t].st = "rate_sleep"

C11_OnlyConfiguredRequested ==
    /\ \A i \in DOMAIN in_flight : is_configured[CurrentTasks[i].provider]
    /\ \A t \in DOMAIN mtasks : NameOf(mtasks[t].provider) \in api_keys
    /\ \A n \in requested : llm_keys[n] = "set"

\* the same, of the crawler and of the manager alone
C11_CrawlerAndManagerOnly ==
    /\ \A i \in DOMAIN in_flight : is_configured[CurrentTasks[i].provider]
    /\ \A t \in DOMAIN mtasks : NameOf(mtasks[t].provider) \in api_keys

\* C12: the hard deadline cancels no task in flight: the elapsed time is read and
\* the loop is left only when every task of the chunk has returned, a future
\* leaves the stream only by returning its result, and a run past its loop has
\* tallied every task that returned.
C12_DeadlineSparesInFlight ==
    /\ [](run_pc \in {"update", "ok", "err"} =>
            /\ in_flight = <<>>
            /\ results = EmptyResults
            /\ total_calls = tasks_run)
    /\ [][(elapsed' # elapsed \/ breach_seen' # breach_seen \/ chunk_lo' # chunk_lo
            \/ (run_pc = "chunk" /\ run_pc' # "chunk")) =>
                (in_flight = <<>> /\ stream_pos = Len(CurrentTasks))]_vars
    /\ [][\A i \in DOMAIN in_flight :
            i \in DOMAIN in_flight' \/ tasks_run' = tasks_run + 1]_vars

\* the deadline passed while the first chunk ran: all of its tasks are tallied,
\* failures among them, and none of the second chunk
C12_Witness ==
    /\ breach_seen
    /\ run_pc = "ok"
    /\ provider_count(is_configured) > 0
    /\ batch.total_api_calls = chunk_size * provider_count(is_configured) * Len(Prompts)
    /\ batch.error_count > 0

\* the last deadline check read more than the soft threshold and no check has
\* read more than the hard one
SoftOnlyCrossed == elapsed > config.sla_target_secs /\ ~breach_seen

\* C13: crossing only the soft threshold changes nothing: the check that crosses it
\* submits the next chunk with all of its tasks, and the run ends with every
\* subject run, every possible call tallied and the record completed, as a run
\* that never crossed it does.
C13_SoftDeadlineChangesNothing ==
    /\ [](~breach_seen =>
            /\ run_pc \in {"update", "ok"} =>
                /\ subjects_run = Len(domains)
                /\ total_calls = TotalPossibleCalls
            /\ run_pc = "ok" =>
                /\ batch.status = "completed"
                /\ batch.total_api_calls = TotalPossibleCalls
                /\ batch.success_count = successful
                /\ batch.error_count = failed)
    /\ [][(SoftOnlyCrossed' /\ subjects_run' # subjects_run /\ subjects_run' < Len(domains)) =>
            /\ run_pc' = "chunk"
            /\ chunk_lo' = subjects_run'
            /\ stream_pos' = 0
            /\ Len(CurrentTasks') =
                Len(Chunk(domains, chunk_lo')) * provider_count(is_configured) * Len(Prompts)]_vars

\* the soft threshold was crossed after the first chunk and the second chunk has
\* been submitted in full
C13_Witness ==
    /\ SoftOnlyCrossed
    /\ run_pc = "chunk"
    /\ chunk_lo = chunk_size
    /\ Len(CurrentTasks) > 0
    /\ stream_pos = Len(CurrentTasks)

C14_WitnessRunner ==
    /\ save_failed > 0
    /\ total_responses > 0
    /\ passes = MaxPasses
    /\ pass_pc = "running"

(***************************************************************************)
(* Properties of the drift step and of DriftEngine                         *)
(***************************************************************************)

\* the drift records made for the response at position k of llm_responses
DriftRecordsOf(k) ==
    {drift_results[d] : d \in {e \in DOMAIN drift_results :
        drift_results[e].model = llm_responses[k].provider}}

\* the drift loop is over and read the baseline of every response
DriftLoopDone ==
    /\ enable_drift_detection
    /\ q_pc \in {"status", "ok"}
    /\ Len(baselines_read) = Len(llm_responses)

\* C15: every answer shorter than 10 characters gets a drift record with status
\* decayed, similarity 0 and drift 1, whether its baseline is present, absent or
\* too short.
C15_ShortAnswerDecayed ==
    DriftLoopDone =>
        \A k \in DOMAIN llm_responses :
            (llm_responses[k].answer_len < 10 /\ baselines_read[k].is # "err") =>
                DriftRecordsOf(k) = {[model |-> llm_responses[k].provider, status |-> "decayed",
                                      similarity |-> 0, drift_score |-> 100]}

\* C16: an answer of at least 10 characters whose baseline is absent or too short
\* gets a drift record with status stable, similarity 1 and drift 0.
C16_FirstObservationStable ==
    DriftLoopDone =>
        \A k \in DOMAIN llm_responses :
            (/\ llm_responses[k].answer_len >= 10
             /\ \/ baselines_read[k].is = "none"
                \/ baselines_read[k].is = "some" /\ baselines_read[k].len < 10) =>
                DriftRecordsOf(k) = {[model |-> llm_responses[k].provider, status |-> "stable",
                                      similarity |-> 100, drift_score |-> 0]}

\* the parts of C15 and C16 about a baseline that was found
C15_ShortAnswerDecayedGivenBaseline ==
    DriftLoopDone =>
        \A k \in DOMAIN llm_responses :
            (llm_responses[k].answer_len < 10 /\ baselines_read[k].is = "some") =>
                DriftRecordsOf(k) = {[model |-> llm_responses[k].provider, status |-> "decayed",
                                      similarity |-> 0, drift_score |-> 100]}
C16_ShortBaselineStable ==
    DriftLoopDone =>
        \A k \in DOMAIN llm_responses :
            (/\ llm_responses[k].answer_len >= 10
             /\ baselines_read[k].is = "some" /\ baselines_read[k].len < 10) =>
                DriftRecordsOf(k) = {[model |-> llm_responses[k].provider, status |-> "stable",
                                      similarity |-> 100, drift_score |-> 0]}

\* C17: cosine_similarity returns a value in [0, 1] for every pair of embeddings
\* of the same dimension, zero vectors included, and every record of
\* create_drift_score has similarity_prev in [0, 1] and drift_score equal to
\* 1 - similarity_prev.
C17_SimilarityInUnitInterval ==
    /\ drift_call = "cosine_similarity" => (0 <= drift_ret /\ drift_ret <= One)
    /\ drift_call = "create_drift_score" =>
        /\ 0 <= drift_ret.similarity_prev /\ drift_ret.similarity_prev <= One
        /\ drift_ret.drift_score = FAdd(One, 0 - drift_ret.similarity_prev)

\* the part of C17 about zero vectors: the similarity is 0
C17_ZeroVectorGivesZero ==
    (/\ drift_call = "cosine_similarity"
     /\ \E k \in 1..2 : \A j \in 1..EmbeddingDim : drift_args[k][j] = 0)
        => drift_ret = 0

\* stable is the best status and decayed the worst
StatusRank(status) ==
    CASE status = "Stable" -> 2
      [] status = "Drifting" -> 1
      [] status = "Decayed" -> 0

\* C18: classify_drift gives stable for a similarity of at least 0.8, drifting
\* from 0.5 up to 0.8 and decayed below 0.5, and a higher similarity never gets a
\* worse status; 0.95 and 0.9 are stable, 0.6 and 0.5 drifting, 0.3 and 0.1
\* decayed.
C18_ClassifyDriftThresholds ==
    drift_call = "classify_drift" =>
        LET s == drift_args[1]
        IN  /\ s >= 80 => drift_ret = "Stable"
            /\ (50 <= s /\ s < 80) => drift_ret = "Drifting"
            /\ s < 50 => drift_ret = "Decayed"
            /\ \A t \in 0..100 :
                t >= s => StatusRank(classify_drift(t, 100)) >= StatusRank(drift_ret)
            /\ s \in {95, 90} => drift_ret = "Stable"
            /\ s \in {60, 50} => drift_ret = "Drifting"
            /\ s \in {30, 10} => drift_ret = "Decayed"

\* classify_drift was applied to the similarity 0.5, the lowest that is drifting
C18_Witness ==
    /\ drift_call = "classify_drift"
    /\ drift_args = <<50>>
    /\ drift_ret = "Drifting"

\* C19: calculate_drift_score returns 0.4 * self + 0.35 * peer + 0.25 * canonical,
\* a value in [0, 1], when the three components are in [0, 1] (0.8, 0.7, 0.9 gives
\* 0.79), and returns no score when a component is outside [0, 1].
C19_WeightedScoreOrRejected ==
    drift_call = "calculate_drift_score" =>
        LET s == drift_args[1]
            p == drift_args[2]
            c == drift_args[3]
        IN  IF \A x \in {s, p, c} : 0 <= x /\ x <= 100
            THEN /\ ~drift_ret.panicked
                 /\ drift_ret.score = 40 * s + 35 * p + 25 * c
                 /\ 0 <= drift_ret.score /\ drift_ret.score <= 10000
                 /\ drift_args = <<80, 70, 90>> => drift_ret.score = 7900
            ELSE drift_ret.panicked

\* calculate_drift_score was applied to a canonical similarity above 1, the other
\* two components being valid, and panicked
C19_Witness ==
    /\ drift_call = "calculate_drift_score"
    /\ drift_args = <<80, 70, 110>>
    /\ drift_ret.panicked

\* C20: calculate_ensemble_drift returns the mean of the drifts when their
\* population standard deviation is at most 0.2 and mean + standard deviation
\* when it is above 0.2; [0.1, 0.1, 0.1] gives 0.1, [0.0, 0.0, 0.9] gives mean +
\* standard deviation, the empty list gives 0.
C20_EnsembleMeanOrPenalised ==
    drift_call = "calculate_ensemble_drift" =>
        IF drift_args = <<>>
        THEN drift_ret = 0
        ELSE LET n == Len(drift_args)
                 sum == SumSeq(drift_args)
                 sumOfSquares == SumSeq([k \in 1..n |-> drift_args[k] * drift_args[k]])
                 \* n^2 times the population variance, in hundredths squared
                 variance == n * sumOfSquares - sum * sum
                 mean == (10 * sum) \div n
                 std_dev == ISqrt((100 * variance) \div (n * n))
             IN  /\ variance <= 400 * n * n => drift_ret = mean
                 /\ variance > 400 * n * n => drift_ret = mean + std_dev
                 /\ drift_args = <<10, 10, 10>> => drift_ret = 100
                 /\ drift_args = <<0, 0, 90>> => drift_ret = 300 + 424

\* calculate_ensemble_drift was applied to [0.0, 0.0, 0.9] and returned mean +
\* standard deviation
C20_Witness ==
    /\ drift_call = "calculate_ensemble_drift"
    /\ drift_args = <<0, 0, 90>>
    /\ drift_ret = 724

\* drifts whose standard deviation is exactly 0.2 give the mean
C20_WitnessAtThreshold ==
    /\ drift_call = "calculate_ensemble_drift"
    /\ drift_args = <<10, 50>>
    /\ drift_ret = 300

\* C21: every drift score the engine reports is in [0, 1]; in particular the
\* ensemble drift of model drifts that are each in [0, 1] is in [0, 1].
C21_DriftScoresClamped ==
    /\ (drift_call = "calculate_ensemble_drift"
            /\ \A k \in DOMAIN drift_args : 0 <= drift_args[k] /\ drift_args[k] <= 100)
        => (0 <= drift_ret /\ drift_ret <= 1000)
    /\ (drift_call = "calculate_drift_score" /\ ~drift_ret.panicked)
        => (0 <= drift_ret.score /\ drift_ret.score <= 10000)

\* the part of C21 that holds: the ensemble drift is never negative, and the
\* weighted score is in [0, 1]
C21_EnsembleNotNegative ==
    /\ drift_call = "calculate_ensemble_drift" => 0 <= drift_ret
    /\ (drift_call = "calculate_drift_score" /\ ~drift_ret.panicked)
        => (0 <= drift_ret.score /\ drift_ret.score <= 10000)

\* C22: calculate_temporal_drift on n embeddings returns n - 1 drifts when
\* n >= 2, the i-th being 1 - similarity(embedding i, embedding i + 1), and the
\* empty sequence when n < 2.
C22_TemporalDriftPairs ==
    drift_call = "calculate_temporal_drift" =>
        LET n == Len(drift_args)
        IN  /\ n < 2 => drift_ret = <<>>
            /\ n >= 2 =>
                /\ Len(drift_ret) = n - 1
                /\ \A i \in 1..(n - 1) :
                    drift_ret[i] = FAdd(One, 0 - cosine_similarity(drift_args[i], drift_args[i + 1]))

\* a history of three embeddings gave two different drifts
C22_Witness ==
    /\ drift_call = "calculate_temporal_drift"
    /\ Len(drift_args) = 3
    /\ Len(drift_ret) = 2
    /\ drift_ret[1] # drift_ret[2]

(***************************************************************************)
(* Properties of compute_rankings                                          *)
(***************************************************************************)

\* the row of a ranked domain, and its position in the fetch order
RowOf(domain) == domain_rows[CHOOSE k \in DOMAIN domain_rows : domain_rows[k].domain = domain]
FetchPosition(domain) == CHOOSE k \in DOMAIN domain_rows : domain_rows[k].domain = domain

\* C23: the output of compute_rankings is ordered by score descending, ties in
\* fetch order, and the entry at position i has rank i: the ranks are 1..N
\* without gap or duplicate.
C23_RanksDenseByScore ==
    rank_pc = "ok" =>
        /\ \A i \in DOMAIN rankings : rankings[i].rank = i
        /\ {rankings[i].rank : i \in DOMAIN rankings} = 1..Len(rankings)
        /\ \A i, j \in DOMAIN rankings :
            i < j =>
                /\ rankings[i].score >= rankings[j].score
                /\ rankings[i].score = rankings[j].score =>
                    FetchPosition(rankings[i].domain) < FetchPosition(rankings[j].domain)

\* three domains ranked, the first fetched two tied behind the last fetched
C23_Witness ==
    /\ rank_pc = "ok"
    /\ Len(rankings) = 3
    /\ rankings[1].domain = "C"
    /\ rankings[1].score > rankings[2].score
    /\ rankings[2].score = rankings[3].score
    /\ rankings[2].domain = "A"

\* C24: a subject with no stored valid response and no drift record is never in
\* the output of compute_rankings; citation counts [10, 5, 0] with the third
\* subject unobserved give exactly 2 entries, A above B.
C24_UnobservedExcluded ==
    rank_pc = "ok" =>
        /\ \A i \in DOMAIN rankings :
            LET row == RowOf(rankings[i].domain)
            IN  row.responses.valid > 0 \/ row.drifts # <<>>
        /\ (/\ \A k \in DOMAIN domain_rows : domain_rows[k].status = "completed"
            /\ [k \in DOMAIN domain_rows |-> domain_rows[k].responses.valid] = <<10, 5, 0>>
            /\ [k \in DOMAIN domain_rows |-> domain_rows[k].drifts] = <<(<<10>>), (<<10>>), (<<>>)>>)
            => [i \in DOMAIN rankings |-> rankings[i].domain] = <<"A", "B">>

\* the part of C24 that holds: of two ranked subjects with the same average
\* drift, the one with more citations is ranked above
C24_MoreCitedRankedAbove ==
    rank_pc = "ok" =>
        \A i, j \in DOMAIN rankings :
            (/\ rankings[i].avg_drift = rankings[j].avg_drift
             /\ rankings[i].citation_count > rankings[j].citation_count)
                => rankings[i].rank < rankings[j].rank

\* C25: every ranked subject has score = 0.7 * citation_count + 0.3 * 100 *
\* (1 - avg_drift) and stability_score = 100 * (1 - avg_drift), citation_count
\* being the number of stored responses with status valid and avg_drift the mean
\* of the stored drift scores.
C25_CompositeScore ==
    rank_pc = "ok" =>
        \A i \in DOMAIN rankings :
            LET row == RowOf(rankings[i].domain)
                n == Len(row.drifts)
                e == rankings[i]
            IN  /\ e.citation_count = row.responses.valid
                /\ n > 0 => /\ n * e.avg_drift <= 100 * SumSeq(row.drifts)
                            /\ 100 * SumSeq(row.drifts) < n * (e.avg_drift + 1)
                /\ e.score = 7000 * e.citation_count + 30 * (10000 - e.avg_drift)
                /\ e.stability_score = 10000 - e.avg_drift

\* a ranked subject with 5 valid responses out of 7 and drifts 0.1 and 0.9:
\* score 0.7 * 5 + 30 * 0.5 = 18.5
C25_Witness ==
    /\ rank_pc = "ok"
    /\ \E i \in DOMAIN rankings :
        /\ RowOf(rankings[i].domain).responses = [valid |-> 5, malformed |-> 1, empty |-> 1]
        /\ RowOf(rankings[i].domain).drifts = <<10, 90>>
        /\ rankings[i].score = 185000
        /\ rankings[i].stability_score = 5000

(***************************************************************************)
(* Properties of the normalizer                                            *)
(***************************************************************************)

\* C26: the cleaned text is empty when it has fewer than 10 characters,
\* malformed when it has 10 to 99 characters and contains an indicator word, and
\* valid otherwise.
C26_ClassifiedByCharacters ==
    norm_pc \in {"once", "twice"} =>
        LET text == first_pass.answer
            length == CharLen(text)
        IN  first_pass.status =
                IF length < 10 THEN "empty"
                ELSE IF length < 100 /\ ContainsIndicator(text) THEN "malformed"
                ELSE "valid"

\* the part of C26 that holds: the same with the lengths in bytes, which are the
\* lengths in characters of a text of one-byte characters
C26_ClassifiedByBytes ==
    norm_pc \in {"once", "twice"} =>
        LET text == first_pass.answer
            length == ByteLen(text)
        IN  /\ first_pass.status =
                    IF length < 10 THEN "empty"
                    ELSE IF length < 100 /\ ContainsIndicator(text) THEN "malformed"
                    ELSE "valid"
            /\ (\A i \in DOMAIN text : text[i] # Accented) => length = CharLen(text)

\* C27: normalizing the answer of a normalized payload gives the same answer and
\* the same status.
C27_NormalizeIdempotent ==
    norm_pc = "twice" => second_pass = first_pass

\* the part of C27 that holds: an answer without code fence that is not a JSON
\* object with a known field is normalized to itself
C27_IdempotentOnPlainAnswers ==
    (/\ norm_pc = "twice"
     /\ \A i \in DOMAIN first_pass.answer : first_pass.answer[i] # Fence
     /\ ~(IsJsonObject(first_pass.answer) /\ HasKnownField(first_pass.answer)))
        => second_pass = first_pass

(***************************************************************************)
(* Properties of the retry delays and of the stagger                       *)
(***************************************************************************)

\* fast is the lowest speed tier and slow the highest
TierRank(tier) ==
    CASE tier = "Fast" -> 0
      [] tier = "Medium" -> 1
      [] tier = "Slow" -> 2

\* C28: in both retry loops the delay before the next attempt grows
\* exponentially with the number of failed attempts, and for the same attempt
\* number a provider of a slower tier waits longer than one of a faster tier.
C28_BackoffExponentialByTier ==
    retry_loop \in {"manager", "crawler"} =>
        /\ \A k \in 1..2 : \A n \in 2..Len(retry_delays[k]) :
            retry_delays[k][n] = 2 * retry_delays[k][n - 1]
        /\ \A n \in DOMAIN retry_delays[1] :
            TierRank(SpeedTierOf(retry_pair[1])) > TierRank(SpeedTierOf(retry_pair[2]))
                => retry_delays[1][n] > retry_delays[2][n]

\* the part of C28 that holds: the manager's delays are ordered by tier, and in
\* both loops the second delay is twice the first
C28_ManagerDelaysByTier ==
    /\ retry_loop \in {"manager", "crawler"} =>
        \A k \in 1..2 : \A n \in 2..Len(retry_delays[k]) :
            retry_delays[k][n] = 2 * retry_delays[k][n - 1]
    /\ retry_loop = "manager" =>
        \A n \in DOMAIN retry_delays[1] :
            TierRank(SpeedTierOf(retry_pair[1])) > TierRank(SpeedTierOf(retry_pair[2]))
                => retry_delays[1][n] > retry_delays[2][n]

\* the crawler's delays are the same for every provider
C28_CrawlerDelaysIgnoreProvider ==
    retry_loop = "crawler" => retry_delays[1] = retry_delays[2]

\* the speed tier of the provider of a future of the manager
TierOfTask(t) == ProviderTable[t[2]].speed_tier

\* C29: in a pass of process_domain_with_all_providers a fast-tier provider
\* enters query_provider_with_throttling when the pass starts, a medium-tier
\* provider sleeps until 200 ms after the start and a slow-tier one until 500 ms
\* after it, neither being called before; the offsets are ordered fast < medium
\* < slow.
C29_StaggerByTier ==
    /\ [](\A t \in DOMAIN mtasks :
            mtasks[t].st = "stagger" =>
                /\ TierOfTask(t) # "Fast"
                /\ mtasks[t].attempt = 0
                /\ mtasks[t].log = <<>>)
    /\ [][\A t \in DOMAIN mtasks' :
            /\ t \notin DOMAIN mtasks =>
                /\ TierOfTask(t) = "Fast" => mtasks'[t].st \in {"query", "rate_sleep"}
                /\ TierOfTask(t) = "Medium" =>
                    mtasks'[t].st = "stagger" /\ mtasks'[t].wake = now + 200
                /\ TierOfTask(t) = "Slow" =>
                    mtasks'[t].st = "stagger" /\ mtasks'[t].wake = now + 500
            /\ (t \in DOMAIN mtasks /\ mtasks[t].st = "stagger" /\ mtasks'[t].st # "stagger")
                => now >= mtasks[t].wake /\ now' = now]_vars
    /\ [][now' >= now]_vars

\* a slow-tier provider got its first call 500 ms or more after the clock's start
C29_Witness ==
    \E t \in DOMAIN mtasks :
        /\ TierOfTask(t) = "Slow"
        /\ mtasks[t].st = "query"
        /\ mtasks[t].attempt = 1
        /\ mtasks[t].called_at >= 500

\* a medium-tier provider got its first call between 200 and 500 ms
C29_WitnessMedium ==
    \E t \in DOMAIN mtasks :
        /\ TierOfTask(t) = "Medium"
        /\ t[1] = 1
        /\ mtasks[t].st = "query"
        /\ mtasks[t].attempt = 1
        /\ mtasks[t].called_at >= 200
        /\ mtasks[t].called_at < 500

\* the positions in domains of the chunk that starts at offset lo
ChunkPositions(lo) == (lo + 1)..Min(lo + chunk_size, Len(domains))

\* C30: run() processes the fetched subjects in chunks of 10 that partition the
\* list in order; a task of a chunk starts only when every task of the chunks
\* before has returned and been tallied; the deadlines are checked once after
\* each chunk, in the step that tallies it, and nowhere else.
C30_ChunksOfTen ==
    /\ [](run_pc = "chunk" =>
            /\ domains = active_domains
            /\ chunk_lo % chunk_size = 0
            /\ chunk_lo < Len(domains)
            /\ subjects_run = chunk_lo
            /\ Chunk(domains, chunk_lo) =
                [j \in 1..Cardinality(ChunkPositions(chunk_lo)) |-> domains[chunk_lo + j]]
            /\ Len(Chunk(domains, chunk_lo)) = Min(chunk_size, Len(domains) - chunk_lo)
            /\ total_calls = chunk_lo * provider_count(is_configured) * Len(Prompts)
            /\ tasks_run = total_calls + results.ok + results.err
            /\ \A i \in DOMAIN in_flight :
                /\ i \in DOMAIN CurrentTasks
                /\ \E j \in ChunkPositions(chunk_lo) : CurrentTasks[i].domain = domains[j])
    /\ [][chunk_lo' # chunk_lo =>
            /\ chunk_lo' = chunk_lo + chunk_size
            /\ in_flight = <<>>
            /\ stream_pos = Len(CurrentTasks)
            /\ total_calls' = total_calls + Len(CurrentTasks)
            /\ stream_pos' = 0
            /\ in_flight' = <<>>]_vars
    /\ [][IF subjects_run' # subjects_run
          THEN /\ subjects_run' = subjects_run + Len(Chunk(domains, chunk_lo))
               /\ elapsed' >= elapsed
               /\ breach_seen' = (breach_seen \/ elapsed' > config.sla_max_secs)
               /\ (run_pc' = "update") <=>
                    (elapsed' > config.sla_max_secs \/ chunk_lo + chunk_size >= Len(domains))
               /\ (run_pc' = "chunk") <=> (chunk_lo' = chunk_lo + chunk_size)
          ELSE /\ elapsed' = elapsed
               /\ breach_seen' = breach_seen
               /\ chunk_lo' = chunk_lo]_vars
    /\ [](run_pc \in {"update", "ok"} /\ ~breach_seen => subjects_run = Len(domains))

\* the first chunk of 10 was tallied, the deadlines checked, and a task of the
\* second chunk, which holds the eleventh subject alone, is running
C30_Witness ==
    /\ run_pc = "chunk"
    /\ chunk_lo = chunk_size
    /\ Chunk(domains, chunk_lo) = <<domains[chunk_size + 1]>>
    /\ in_flight # <<>>
    /\ total_calls = chunk_size * provider_count(is_configured) * Len(Prompts)
    /\ total_calls > 0

(***************************************************************************)
(* Properties of the batch statistics, the response store and the passes   *)
(***************************************************************************)

\* C31: the failures counted by run() are the tasks whose provider call failed
\* max_retries times, and every other task that returned, a failed write of its
\* response included, is counted as a success.
C31_FailuresAreExhaustedCalls ==
    /\ failed + results.err = exhausted
    /\ successful + results.ok = tasks_run - exhausted

\* the failures counted are the tasks that returned an error: those whose calls
\* were exhausted and those whose response could not be written
C31_FailuresAreReturnedErrors ==
    /\ failed + results.err = exhausted + insert_failed
    /\ successful + results.ok + failed + results.err = tasks_run
    /\ run_pc = "ok" => batch.error_count = exhausted + insert_failed

\* the rows of domain_responses with that conflict key
RowsOf(key) == {r \in domain_responses : KeyOf(r) = key}

\* C32: whatever the order in which the tasks complete, domain_responses holds at
\* most one row per (domain_id, model); once a statement was executed for a key the
\* row is that of the most recent one, and a key never written keeps what it had.
C32_LastWriteWins ==
    \A key \in StoreKeys :
        /\ Cardinality(RowsOf(key)) <= 1
        /\ latest_write[key] # "none" =>
            RowsOf(key) = {[domain_id |-> key.domain_id, model |-> key.model,
                            prompt_type |-> latest_write[key], batch_id |-> "current"]}
        /\ latest_write[key] = "none" => RowsOf(key) \subseteq {OldRow(key)}

\* every task has returned; a key holds the row of the prompt written last,
\* which is not the last prompt of the task list
C32_Witness ==
    /\ insert_pc = "run"
    /\ pending_inserts = {}
    /\ \E key \in StoreKeys :
        /\ latest_write[key] = Prompts[2]
        /\ \E r \in RowsOf(key) : r.prompt_type = Prompts[2] /\ r.batch_id = "current"

\* the futures of the running pass that ended with a response, and with an error
DoneOk == {t \in DOMAIN mtasks : mtasks[t].st = "done_ok"}
DoneErr == {t \in DOMAIN mtasks : mtasks[t].st = "done_err"}

\* C33: process_domain_with_all_providers returns an error exactly when no
\* provider gave a response, no configured provider included; otherwise it
\* returns one entry per provider that succeeded, whatever the others did.
C33_ErrIffNoResponse ==
    [][(pass_pc = "running" /\ pass_pc' = "idle") =>
        /\ DoneOk \cup DoneErr = DOMAIN mtasks
        /\ Cardinality(DOMAIN mtasks) = Cardinality(api_keys)
        /\ (pass_result'.status = "err") <=> (DoneOk = {})
        /\ (pass_result'.status = "ok") <=> (DoneOk # {})
        /\ pass_result'.successful_responses = {NameOf(mtasks[t].provider) : t \in DoneOk}
        /\ Cardinality(pass_result'.successful_responses) = Cardinality(DoneOk)
        /\ pass_result'.failed_count = Cardinality(DoneErr)]_vars

\* a pass over two providers returned the response of one although the other
\* failed at every attempt
C33_Witness ==
    /\ pass_pc = "idle"
    /\ pass_result.status = "ok"
    /\ Cardinality(pass_result.successful_responses) = 1
    /\ pass_result.failed_count = 1

\* a pass with no configured provider returned the error
C33_WitnessNoProvider ==
    /\ api_keys = {}
    /\ pass_pc = "idle"
    /\ pass_result.status = "err"

\* the status changes the claim allows
LifecycleEdges ==
    {<<"pending", "processing">>, <<"processing", "completed">>, <<"processing", "failed">>}

\* the loop body of the domain at position i has run to its end
IterationOver(i) == i < domain_idx \/ (i = domain_idx /\ pend_pc = "ok")

\* C34: in process_pending_domains a fetched domain goes pending -> processing ->
\* completed or failed; it is completed only when each of the three prompts got a
\* response and failed only when one did not, and never left completed after a
\* prompt failed; the three prompts are all processed, a failure among them or
\* not; domains_processed = successful_domains + failed_domains counts the
\* domains so marked and never exceeds the number fetched.
C34_DomainLifecycle ==
    /\ [][\A i \in DOMAIN domain_status :
            domain_status'[i] # domain_status[i] =>
                <<domain_status[i], domain_status'[i]>> \in LifecycleEdges]_vars
    /\ [](\A i \in DOMAIN domain_status :
            /\ domain_status[i] = "completed" =>
                prompt_outcomes[i] = [k \in DOMAIN Prompts |-> "ok"]
            /\ domain_status[i] = "failed" =>
                /\ Len(prompt_outcomes[i]) = Len(Prompts)
                /\ \E k \in DOMAIN Prompts : prompt_outcomes[i][k] = "err"
            /\ (IterationOver(i) /\ domain_status[i] # "pending") =>
                Len(prompt_outcomes[i]) = Len(Prompts)
            /\ domain_status[i] = "pending" => prompt_outcomes[i] = <<>>)
    /\ [](/\ successful_domains =
                Cardinality({i \in DOMAIN domain_status : domain_status[i] = "completed"})
          /\ failed_domains =
                Cardinality({i \in DOMAIN domain_status : domain_status[i] = "failed"})
          /\ domains_processed <= Len(fetched_domains))

\* the request is answered: one domain is failed because its first prompt got
\* no response, its two other prompts were processed and got one, and another
\* domain is completed
C34_Witness ==
    /\ pend_pc = "ok"
    /\ \E i, j \in DOMAIN domain_status :
        /\ domain_status[i] = "failed"
        /\ prompt_outcomes[i] = <<"err", "ok", "ok">>
        /\ domain_status[j] = "completed"
    /\ domains_processed = 2

(***************************************************************************)
(* Properties of Worker::process_drift_monitoring                          *)
(***************************************************************************)

\* the stored embeddings of a domain from the oldest to the newest
StoredEmbeddings(domain) == EmbeddingsOf(domain, response_rows)

\* the drift between two embeddings
DriftBetween(a, b) == FAdd(One, 0 - cosine_similarity(a, b))

\* C35: the drift process_drift_monitoring compares with 0.3 for a domain is the
\* drift between the two most recent stored embeddings of that domain.
C35_ComparesMostRecentPair ==
    \A domain \in DOMAIN compared_drift :
        LET stored == StoredEmbeddings(domain)
            n == Len(stored)
        IN  compared_drift[domain] = DriftBetween(stored[n - 1], stored[n])

\* the drift compared is that between the two oldest of the embeddings fetched
C35_ComparesOldestPair ==
    \A domain \in DOMAIN compared_drift :
        LET stored == StoredEmbeddings(domain)
        IN  /\ Len(stored) >= 2
            /\ compared_drift[domain] = DriftBetween(stored[1], stored[2])

\* C36: every record process_drift_monitoring saves has drift_score > 0.3,
\* similarity_prev = 1 - drift_score and the status Drifting or Decayed; a domain
\* with fewer than 2 embeddings, or whose compared drift is at most 0.3, has no
\* record.
C36_RecordsOnlyHighDrift ==
    /\ \A r \in drift_scores :
        /\ 10 * r.drift_score > 3 * One
        /\ r.similarity_prev = FAdd(One, 0 - r.drift_score)
        /\ r.status \in {"Drifting", "Decayed"}
        /\ r.domain \in DOMAIN compared_drift
        /\ r.drift_score = compared_drift[r.domain]
    /\ \A domain \in MonitoredDomains :
        (\/ Len(StoredEmbeddings(domain)) < 2
         \/ (domain \in DOMAIN compared_drift /\ 10 * compared_drift[domain] <= 3 * One))
            => ~(\E r \in drift_scores : r.domain = domain)

\* the round ended with a Drifting record for one domain and none for the other,
\* which has a single embedding
C36_Witness ==
    /\ monitor_pc = "ok"
    /\ \E r \in drift_scores :
        /\ r.status = "Drifting"
        /\ \E domain \in MonitoredDomains \ {r.domain} :
            /\ Len(StoredEmbeddings(domain)) = 1
            /\ ~(\E q \in drift_scores : q.domain = domain)

\* the round ended without a record for a domain whose two embeddings differ
\* by a drift of at most 0.3
C36_WitnessLowDrift ==
    /\ monitor_pc = "ok"
    /\ \E domain \in DOMAIN compared_drift :
        /\ compared_drift[domain] > 0
        /\ 10 * compared_drift[domain] <= 3 * One
        /\ ~(\E r \in drift_scores : r.domain = domain)

\* a record with the status Decayed was saved
C36_WitnessDecayed == \E r \in drift_scores : r.status = "Decayed"

(***************************************************************************)
(* Properties of query_domain, compute_rankings and Database::new          *)
(***************************************************************************)

\* C37: query_domain sets the domain's status to completed only when a provider
\* returned a response for the request.
C37_CompletedOnlyWithResponse ==
    subject_status = "completed" => llm_responses # <<>>

\* the status is written by any request that query_all and the store let reach
\* the end of the handler, whatever the number of responses
C37_CompletedOnlyAtEnd ==
    subject_status = "completed" => q_pc = "ok"

\* the completed rows of the table domains, in table order
CompletedRows == SelectSeq(domain_rows, LAMBDA row : row.status = "completed")

\* the domains of the ranking returned
RankedDomains == {rankings[i].domain : i \in DOMAIN rankings}

\* C38: the ranking returned holds the completed subjects with the highest
\* composite scores: no completed subject left out has a higher score than a
\* subject in it.
C38_TopScoresReturned ==
    rank_pc = "ok" =>
        \A k \in DOMAIN CompletedRows :
            CompletedRows[k].domain \notin RankedDomains =>
                \A i \in DOMAIN rankings :
                    BrandScoreOf(CompletedRows[k]).score <= rankings[i].score

\* the ranking returned holds the completed rows the LIMIT let through, which are
\* chosen before any score is computed
C38_FirstFetchedReturned ==
    rank_pc = "ok" =>
        /\ Len(rankings) <= Len(CompletedRows)
        /\ RankedDomains = {CompletedRows[k].domain : k \in 1..Len(rankings)}
        /\ Len(rankings) < Len(CompletedRows) => \E limit \in Limits : Len(rankings) = limit

\* the calls of connect that returned an error
ConnectFailures == attempts_made - (IF connect_pc = "ok" THEN 1 ELSE 0)

\* C39: Database::new makes at most 10 connection attempts, one after the other,
\* with a pause of 5 seconds after each failed attempt but the last; it returns
\* the pool at the first attempt that succeeds and makes no attempt after it; it
\* returns the connection error exactly when the 10 attempts have all failed.
C39_ConnectRetriesBounded ==
    /\ [](/\ attempts_made <= connect_max_retries
          /\ connect_attempt \in 1..connect_max_retries
          /\ connect_pc = "connect" => (attempts_made = connect_attempt - 1 /\ pauses = attempts_made)
          /\ connect_pc = "sleep" => (attempts_made = connect_attempt /\ pauses = attempts_made - 1)
          /\ connect_pc = "ok" => (attempts_made = connect_attempt /\ pauses = ConnectFailures)
          /\ connect_pc = "err" => pauses = connect_max_retries - 1
          /\ (connect_pc = "err") <=> (ConnectFailures = connect_max_retries)
          /\ connect_elapsed >= retry_delay * pauses)
    /\ [][/\ attempts_made' \in {attempts_made, attempts_made + 1}
          /\ attempts_made' = attempts_made + 1 =>
                /\ connect_pc = "connect"
                /\ pauses = attempts_made
                /\ connect_pc' \in {"ok", "sleep", "err"}
          /\ pauses' # pauses =>
                /\ pauses' = pauses + 1
                /\ connect_elapsed' = connect_elapsed + retry_delay
                /\ attempts_made' = attempts_made
          /\ connect_pc \in {"ok", "err"} => UNCHANGED kvars]_vars

\* the pool is returned at the third attempt, after two failures and two pauses
C39_Witness ==
    /\ connect_pc = "ok"
    /\ attempts_made = 3
    /\ pauses = 2
    /\ connect_elapsed >= 2 * retry_delay

\* the error is returned after ten failures and nine pauses
C39_WitnessErr ==
    /\ connect_pc = "err"
    /\ attempts_made = connect_max_retries
    /\ pauses = connect_max_retries - 1

====
